---- MODULE Spec2Model ----
(***************************************************************************)
(* Interns-Portal: the application-eligibility workflow (apply), the       *)
(* company's status update, the campaign edit and the student-facing       *)
(* internship reads, over the relational store of the Prisma schema.       *)
(* Every `await prisma...` of a handler is one store step, so concurrent   *)
(* requests interleave between their store steps.                          *)
(***************************************************************************)
EXTENDS Integers, Sequences, FiniteSets, TLC

(***************************************************************************)
(* Bounds of the model.                                                    *)
(***************************************************************************)
\* number of requests that can be in flight together
NumReqs == 2
\* the clock runs over 0..MaxTime
MaxTime == 2

(***************************************************************************)
(* Program constants.                                                      *)
(***************************************************************************)
\* coverLetter.trim().length < 50 is rejected
MinCoverLetter == 50
\* coverLetter.length > 2000 is rejected
MaxCoverLetter == 2000
\* `take: 5` of the similar-internships query
TakeSimilar == 5
\* length of a calendar month in clock ticks (startOfMonth = first tick of it)
MonthLen == 2
\* StudentPlan.maxApplicationsPerMonth is nullable: the null cap
NoCap == -1

Reqs == 1 .. NumReqs
Times == 0 .. MaxTime

Students == {"s1", "s2"}
CompanyUsers == {"u1", "u2"}
ApplicationStatuses == {"PENDING", "SHORTLISTED", "ACCEPTED", "REJECTED"}
CampaignStatuses == {"ACTIVE", "PAUSED", "COMPLETED", "EXPIRED"}

(***************************************************************************)
(* Cover letters.  A string is kept as the lengths of its leading          *)
(* whitespace, of its trimmed content and of its trailing whitespace; the  *)
(* content of a non-empty trimmed string starts and ends with a            *)
(* non-whitespace character.                                               *)
(***************************************************************************)
Letter(l, c, t) == [lead |-> l, core |-> c, trail |-> t]

\* String.prototype.length
Length(s) == s.lead + s.core + s.trail

\* String.prototype.trim
Trim(s) == [lead |-> 0, core |-> s.core, trail |-> 0]

\* the letters a request of the store workflows carries
ShortLetter == Letter(0, 40, 0)
GoodLetter == Letter(1, 50, 1)
PaddedLetter == Letter(0, 1990, 20)
ReqLetters == {ShortLetter, GoodLetter, PaddedLetter}

\* the letters the validation is exercised on
LeadLens == {0, 1}
CoreLens == {0, 40, 49, 50, 51, 1990, 1999, 2000, 2001}
TrailLens == {0, 1, 20}
AllLetters == {Letter(l, c, t) : l \in LeadLens, c \in CoreLens, t \in TrailLens}

\* applyToInternship, "Validate cover letter"
CoverLetterError(s) ==
  IF Length(s) = 0 \/ Length(Trim(s)) < MinCoverLetter THEN "ValidationError"
  ELSE IF Length(s) > MaxCoverLetter THEN "ValidationError"
  ELSE "ok"

(***************************************************************************)
(* The store (Prisma schema), the requests in flight and the last response.*)
(***************************************************************************)
VARIABLES
  now,            \* the clock read by `new Date()`
  jwtSecret,      \* process.env.JWT_SECRET is set
  cookie,         \* the studentToken cookie of each student's browser
  campaigns,      \* Campaign rows, by id
  internships,    \* Internship rows, by id
  payments,       \* CampaignPayment rows
  users,          \* User rows
  companies,      \* Company rows
  subscriptions,  \* StudentSubscription rows
  applications,   \* Application rows
  req,            \* the requests in flight, by slot
  resp,           \* the response returned last
  successes       \* history: successful apply responses per (internship, student)

vars == <<now, jwtSecret, cookie, campaigns, internships, payments, users, companies, subscriptions,
          applications, req, resp, successes>>

\* Company.id of the company a COMPANY user owns (User.companyId)
CompanyOf == [u \in CompanyUsers |-> IF u = "u1" THEN "c1" ELSE "c2"]

\* StudentPlan rows: maxApplicationsPerMonth by plan id
Plans == [basic |-> 1, trial |-> 0, pro |-> NoCap]

CampaignIds == {"k1", "k2"}
InternshipIds == {"i1", "i2", "i3"}
\* the internshipId path parameter: the stored ids and one that is not stored
InternshipParams == InternshipIds \cup {"i9"}

\* campaigns are launched ACTIVE
InitCampaigns ==
  [k \in CampaignIds |-> [status |-> "ACTIVE", companyId |-> "c1"]]

InitInternships ==
  [i \in InternshipIds |->
     CASE i = "i1" -> [isActive |-> TRUE, deadline |-> 1, campaignId |-> "k1",
                       companyId |-> "c1", skills |-> {"sql"}]
       [] i = "i2" -> [isActive |-> TRUE, deadline |-> MaxTime + 1, campaignId |-> "k2",
                       companyId |-> "c1", skills |-> {"sql", "go"}]
       [] OTHER    -> [isActive |-> FALSE, deadline |-> MaxTime + 1, campaignId |-> "k1",
                       companyId |-> "c1", skills |-> {"go"}]]

Sub(u, p, st, e, c) ==
  [userId |-> u, planId |-> p, status |-> st, endsAt |-> e, createdAt |-> c]

\* subscriptions of student s1 (no handler of the repository writes
\* StudentSubscription, the rows are those the model starts from)
SubBasic == {Sub("s1", "basic", "ACTIVE", MaxTime + 1, 0)}
SubExpiring == {Sub("s1", "basic", "ACTIVE", 1, 0)}
SubPro == {Sub("s1", "pro", "ACTIVE", MaxTime + 1, 0)}
SubTrial == {Sub("s1", "trial", "ACTIVE", MaxTime + 1, 0)}
SubCanceled == {Sub("s1", "basic", "CANCELED", MaxTime + 1, 0)}
\* the subscription of student s2
SubOther == {Sub("s2", "basic", "ACTIVE", MaxTime + 1, 0)}

NoToken == [kind |-> "none", userId |-> "none", role |-> "none",
            hasActiveSubscription |-> FALSE]

\* CampaignPayment row; transactionId is "none" for NULL
Payment(k, txn, st) == [campaignId |-> k, transactionId |-> txn, status |-> st]

\* the payments of the campaigns the model starts from
InitPayments == {Payment(k, "none", "PENDING") : k \in CampaignIds}

\* User row; id is a fresh cuid, companyId is "none" for NULL
UserRow(id, e, role, c) == [id |-> id, email |-> e, role |-> role, companyId |-> c]

\* Company row; id is a fresh cuid
CompanyRow(id, n) == [id |-> id, name |-> n]

\* the accounts the model starts from
InitUsers ==
  {UserRow("s1", "s1@m", "STUDENT", "none"), UserRow("s2", "s2@m", "STUDENT", "none"),
   UserRow("u1", "u1@m", "COMPANY", "c1"), UserRow("u2", "u2@m", "COMPANY", "c2")}

\* the companies of the accounts the model starts from
InitCompanies == {CompanyRow("c1", "Acme"), CompanyRow("c2", "Globex")}

\* the body of a launch request: whether the required fields are there, the
\* kind of value of paymentMethod and the transactionId
Body(f, m, t) == [fields |-> f, paymentMethod |-> m, transactionId |-> t]

\* no launch body
NoBody == Body(FALSE, "none", "none")

Jwt(u, r, f) == [kind |-> "jwt", userId |-> u, role |-> r,
                 hasActiveSubscription |-> f]

\* Application.id is a fresh cuid: the n-th row inserted for (internship, student)
RowId(i, u, n) == <<i, u, n>>

\* no Application.id
NoRow == <<"none", "none", 0>>

Row(i, u, n, st, l, c, up) ==
  [id |-> RowId(i, u, n), internshipId |-> i, userId |-> u, status |-> st,
   coverLetter |-> l, createdAt |-> c, updatedAt |-> up]

\* the application of student s2 to internship i2, submitted at time 0
InitRow == Row("i2", "s2", 1, "PENDING", Trim(GoodLetter), 0, 0)

\* the status and internshipId query parameters of an application list,
\* "none" for a parameter that is not given
Filter(st, i) == [status |-> st, internshipId |-> i]

\* no query parameters
NoFilter == Filter("none", "none")

\* the pagination total and the status counts of an application list
Summary(t, p, s, a, x) ==
  [total |-> t, pending |-> p, shortlisted |-> s, accepted |-> a, rejected |-> x]

\* nothing counted yet
NoSummary == Summary(0, 0, 0, 0, 0)

\* a slot: pc is the store step the handler is at; token is the token the
\* request carried and body its launch body; client is the browser of a
\* signup, email and name the email and companyName of its body; filter
\* holds the query parameters of an application list and summary the counts
\* read for its response; iid is the internshipId or
\* campaignId path parameter, appId the applicationId one; found holds the
\* rows read so far; prior (history) tells whether an apply for the same pair
\* had succeeded when this one was issued
Idle ==
  [pc |-> "idle", op |-> "none", userId |-> "none", iid |-> "none",
   letter |-> Letter(0, 0, 0), cap |-> NoCap, appId |-> NoRow, target |-> "none",
   prior |-> FALSE, found |-> {}, token |-> NoToken, body |-> NoBody,
   client |-> "none", email |-> "none", name |-> "none",
   filter |-> NoFilter, summary |-> NoSummary]

\* a response: the request, its result, the step `at` that returned it, the
\* rows it returned
NoResp ==
  [op |-> "none", userId |-> "none", iid |-> "none", letter |-> Letter(0, 0, 0),
   appId |-> NoRow, target |-> "none", prior |-> FALSE,
   result |-> "none", at |-> "none", returned |-> {}, token |-> NoToken,
   body |-> NoBody, client |-> "none", email |-> "none", name |-> "none",
   filter |-> NoFilter, summary |-> NoSummary]

\* the state after deployment with the rows subs of StudentSubscription
InitWith(subs) ==
  /\ now = 0
  /\ jwtSecret = TRUE
  /\ cookie = [s \in Students |-> NoToken]
  /\ campaigns = InitCampaigns
  /\ internships = InitInternships
  /\ payments = InitPayments
  /\ users = InitUsers
  /\ companies = InitCompanies
  /\ subscriptions = subs \cup SubOther
  /\ applications = {InitRow}
  /\ req = [r \in Reqs |-> Idle]
  /\ resp = NoResp
  /\ successes = [p \in InternshipIds \X Students |->
                    IF p = <<InitRow.internshipId, InitRow.userId>> THEN 1 ELSE 0]

(***************************************************************************)
(* Helpers over the store.                                                 *)
(***************************************************************************)
\* rows of Application for (internshipId, userId)
RowsOf(i, u) ==
  {a \in applications : a.internshipId = i /\ a.userId = u}

\* first instant of the calendar month of t
StartOfMonth(t) == (t \div MonthLen) * MonthLen

\* the response res of the request q, returned from step at
Response(q, res, at) ==
  [op |-> q.op, userId |-> q.userId, iid |-> q.iid, letter |-> q.letter,
   appId |-> q.appId, target |-> q.target, prior |-> q.prior,
   result |-> res, at |-> at, returned |-> q.found, token |-> q.token,
   body |-> q.body, client |-> q.client, email |-> q.email, name |-> q.name,
   filter |-> q.filter, summary |-> q.summary]

\* the handler of slot r returns: the slot is free again
Return(r, res) ==
  /\ resp' = Response(req[r], res, req[r].pc)
  /\ req' = [req EXCEPT ![r] = Idle]

\* the handler of slot r goes on to its store step pc
Goto(r, pc) ==
  /\ req' = [req EXCEPT ![r].pc = pc]
  /\ UNCHANGED resp

\* a new request takes the first free slot
FirstFree(r) == req[r].pc = "idle" /\ \A x \in Reqs : x < r => req[x].pc # "idle"

\* no request is in flight
Quiet == \A r \in Reqs : req[r].pc = "idle"

(***************************************************************************)
(* Auth guards (middleware/studentAuth).                                   *)
(***************************************************************************)
\* faulty variant: the role of the token is not looked at
StudentGuardAnyRole(tok) ==
  IF tok.kind = "none" THEN "Unauthenticated"
  ELSE IF ~jwtSecret THEN "ServerMisconfigured"
  ELSE IF tok.kind # "jwt" THEN "Unauthenticated"
  ELSE "ok"

\* withStudentAuth: the checks before the wrapped handler is called
StudentGuard(tok) ==
  IF tok.kind = "none" THEN "Unauthenticated"
  ELSE IF ~jwtSecret THEN "ServerMisconfigured"
  ELSE IF tok.kind # "jwt" THEN "Unauthenticated"
  ELSE IF tok.role # "STUDENT" THEN "RoleMismatch"
  ELSE "ok"

\* faulty variant: the subscription flag of the token is not looked at
PaidStudentGuardNoFlag(tok) == StudentGuard(tok)

\* faulty variant: the subscription is looked up in the store, not in the token
PaidStudentGuardFromStore(tok) ==
  IF StudentGuard(tok) # "ok" THEN StudentGuard(tok)
  ELSE IF {sb \in subscriptions : sb.userId = tok.userId /\ sb.status = "ACTIVE"
                                   /\ sb.endsAt > now} = {}
    THEN "SubscriptionRequired"
  ELSE "ok"

\* withPaidStudentAuth: withStudentAuth, then the token's subscription flag
PaidStudentGuard(tok) ==
  IF StudentGuard(tok) # "ok" THEN StudentGuard(tok)
  ELSE IF ~tok.hasActiveSubscription THEN "SubscriptionRequired"
  ELSE "ok"

(***************************************************************************)
(* Subscriptions.                                                          *)
(***************************************************************************)
\* faulty variant: the end of the subscription is not looked at
ActiveSubscriptionsAnyEnd(u, t) ==
  {sb \in subscriptions : sb.userId = u /\ sb.status = "ACTIVE"}

\* applyToInternship: subscriptions where status ACTIVE and endsAt gte now
ActiveSubscriptions(u, t) ==
  {sb \in subscriptions : sb.userId = u /\ sb.status = "ACTIVE" /\ sb.endsAt >= t}

\* orderBy createdAt desc, take 1: the rows that can come first
NewestOf(subs) ==
  {sb \in subs : \A o \in subs : o.createdAt <= sb.createdAt}

\* student login: findFirst where status ACTIVE and endsAt gt now
LoginSubscriptions(u, t) ==
  {sb \in subscriptions : sb.userId = u /\ sb.status = "ACTIVE" /\ sb.endsAt > t}

\* POST /student/login with the right password: the token is issued with the
\* subscription flag of this instant and set as the studentToken cookie
StudentLogin(s) ==
  /\ jwtSecret
  /\ cookie' = [cookie EXCEPT ![s] =
                  Jwt(s, "STUDENT", LoginSubscriptions(s, now) # {})]
  /\ cookie'[s] # cookie[s]
  /\ UNCHANGED <<now, jwtSecret, campaigns, internships, payments, users, companies, subscriptions,
                 applications, req, resp, successes>>

(***************************************************************************)
(* The store's unique index Application(internshipId, userId).             *)
(***************************************************************************)
\* faulty variant: the index is missing
UniqueViolationOff(i, u) == FALSE

\* Application_internshipId_userId_key rejects the insert
UniqueViolation(i, u) == RowsOf(i, u) # {}

\* prisma.application.count where userId and createdAt gte startOfMonth
ApplicationsThisMonth(u, t) ==
  Cardinality({a \in applications : a.userId = u /\ a.createdAt >= StartOfMonth(t)})

(***************************************************************************)
(* POST /student/internships/{internshipId}: applyToInternship behind      *)
(* withPaidStudentAuth.  One action per store step; the code that runs     *)
(* before the first store step belongs to that step.                       *)
(***************************************************************************)
\* the checks on the row of prisma.internship.findUnique (with its campaign)
InternshipError(i) ==
  IF i \notin DOMAIN internships THEN "NotFound"
  ELSE IF ~internships[i].isActive THEN "Closed"
  ELSE IF campaigns[internships[i].campaignId].status # "ACTIVE" THEN "CampaignInactive"
  ELSE IF now > internships[i].deadline THEN "DeadlinePassed"
  ELSE "ok"

\* the guard, req.json(), the cover-letter validation, then
\* prisma.internship.findUnique and the checks on the row
Apply_Begin(r, s, i, l) ==
  /\ req[r].pc = "idle"
  /\ LET tok == cookie[s]
         g == PaidStudentGuard(tok)
         q == [Idle EXCEPT !.token = tok, !.op = "apply", !.userId = tok.userId, !.iid = i,
                           !.letter = l,
                           !.prior = (i \in InternshipIds /\ tok.userId \in Students
                                      /\ successes[<<i, tok.userId>>] > 0)]
     IN IF g # "ok"
          THEN resp' = Response(q, g, "guard") /\ UNCHANGED req
        ELSE IF CoverLetterError(l) # "ok"
          THEN resp' = Response(q, CoverLetterError(l), "validate") /\ UNCHANGED req
        ELSE IF InternshipError(i) # "ok"
          THEN resp' = Response(q, InternshipError(i), "ap_internship") /\ UNCHANGED req
        ELSE req' = [req EXCEPT ![r] = [q EXCEPT !.pc = "ap_existing"]] /\ UNCHANGED resp
  /\ UNCHANGED <<now, jwtSecret, cookie, campaigns, internships, payments, users, companies, subscriptions,
                 applications, successes>>

\* prisma.application.findUnique on internshipId_userId
Apply_Existing(r) ==
  /\ req[r].pc = "ap_existing"
  /\ IF RowsOf(req[r].iid, req[r].userId) # {}
       THEN Return(r, "DuplicateApplication")
       ELSE Goto(r, "ap_user")
  /\ UNCHANGED <<now, jwtSecret, cookie, campaigns, internships, payments, users, companies, subscriptions,
                 applications, successes>>

\* prisma.user.findUnique with the newest active subscription and its plan
Apply_User(r) ==
  /\ req[r].pc = "ap_user"
  /\ LET subs == ActiveSubscriptions(req[r].userId, now)
     IN IF subs = {}
          THEN Return(r, "SubscriptionRequired")
          ELSE \E sb \in NewestOf(subs) :
                 LET c == Plans[sb.planId]
                 IN \* `if (activePlan.maxApplicationsPerMonth)`: null and 0 skip
                    /\ req' = [req EXCEPT ![r] =
                                 IF c # NoCap /\ c # 0
                                   THEN [req[r] EXCEPT !.pc = "ap_count", !.cap = c]
                                 ELSE [req[r] EXCEPT !.pc = "ap_create"]]
                    /\ UNCHANGED resp
  /\ UNCHANGED <<now, jwtSecret, cookie, campaigns, internships, payments, users, companies, subscriptions,
                 applications, successes>>

\* prisma.application.count of the month and the comparison with the cap
Apply_Count(r) ==
  /\ req[r].pc = "ap_count"
  /\ IF ApplicationsThisMonth(req[r].userId, now) >= req[r].cap
       THEN Return(r, "QuotaExceeded")
       ELSE req' = [req EXCEPT ![r] = [req[r] EXCEPT !.pc = "ap_create", !.cap = NoCap]]
            /\ UNCHANGED resp
  /\ UNCHANGED <<now, jwtSecret, cookie, campaigns, internships, payments, users, companies, subscriptions,
                 applications, successes>>

\* prisma.application.create; a rejected insert throws into the catch block;
\* the success response carries the id of the new row
Apply_Create(r) ==
  /\ req[r].pc = "ap_create"
  /\ LET i == req[r].iid
         u == req[r].userId
         id == RowId(i, u, Cardinality(RowsOf(i, u)) + 1)
     IN IF UniqueViolation(i, u)
          THEN /\ Return(r, "InternalError")
               /\ UNCHANGED <<applications, successes>>
          ELSE /\ applications' = applications \cup
                     {Row(i, u, Cardinality(RowsOf(i, u)) + 1, "PENDING",
                          Trim(req[r].letter), now, now)}
               /\ successes' = [successes EXCEPT ![<<i, u>>] = @ + 1]
               /\ resp' = [Response(req[r], "Success", "ap_create") EXCEPT !.appId = id]
               /\ req' = [req EXCEPT ![r] = Idle]
  /\ UNCHANGED <<now, jwtSecret, cookie, campaigns, internships, payments, users, companies, subscriptions>>

\* time passes
Tick ==
  /\ now < MaxTime
  /\ now' = now + 1
  /\ UNCHANGED <<jwtSecret, cookie, campaigns, internships, payments, users, companies, subscriptions,
                 applications, req, resp, successes>>

(***************************************************************************)
(* SpecApply: concurrent apply requests of student s1, logins and time.    *)
(***************************************************************************)
InitApply == \E subs \in {SubBasic, SubPro} : InitWith(subs)

NextApply ==
  \/ \E s \in {"s1"} : StudentLogin(s)
  \/ \E r \in Reqs, s \in {"s1"}, i \in {"i1", "i2"} :
       FirstFree(r) /\ Apply_Begin(r, s, i, GoodLetter)
  \/ \E r \in Reqs : Apply_Existing(r)
  \/ \E r \in Reqs : Apply_User(r)
  \/ \E r \in Reqs : Apply_Count(r)
  \/ \E r \in Reqs : Apply_Create(r)
  \/ Tick

SpecApply == InitApply /\ [][NextApply]_vars

(***************************************************************************)
(* Properties of the apply operation under concurrency (SpecApply).        *)
(***************************************************************************)
\* C1, as stated: apply(I,S) succeeds at most once, and every apply(I,S) call
\* issued after a successful one is answered with DuplicateApplication (here
\* even for the calls that pass the auth guard with a valid cover letter)
C1_AlwaysDuplicate ==
  /\ \A p \in InternshipIds \X Students : successes[p] <= 1
  /\ (resp.op = "apply" /\ resp.prior /\ resp.at # "guard"
        /\ CoverLetterError(resp.letter) = "ok")
       => resp.result = "DuplicateApplication"

\* C1, amended: apply(I,S) succeeds at most once; a call issued after a
\* successful one never succeeds and never reaches the insert; it is answered
\* with DuplicateApplication when it passes the guard and the preconditions
\* 1-5, and with the error of the guard or of the first failing precondition
\* otherwise
C1_AtMostOnce ==
  /\ \A p \in InternshipIds \X Students : successes[p] <= 1
  /\ (resp.op = "apply" /\ resp.prior) =>
       /\ resp.result # "Success"
       /\ resp.at \in {"guard", "validate", "ap_internship", "ap_existing"}
       /\ resp.at = "ap_existing" => resp.result = "DuplicateApplication"
       /\ resp.at = "ap_internship" =>
            resp.result \in {"NotFound", "Closed", "CampaignInactive", "DeadlinePassed"}
       /\ resp.at = "validate" => resp.result = "ValidationError"
       /\ resp.at = "guard" =>
            resp.result \in {"Unauthenticated", "RoleMismatch",
                             "SubscriptionRequired", "ServerMisconfigured"}

\* a call issued after a successful apply for the same pair was answered
\* DuplicateApplication
C1_Witness ==
  /\ resp.op = "apply" /\ resp.prior
  /\ resp.result = "DuplicateApplication"
  /\ successes[<<resp.iid, resp.userId>>] = 1

\* the caps of the plans of the most recently created currently-active
\* subscriptions of student u (the authoritative plan)
AuthoritativeCaps(u) ==
  {Plans[sb.planId] : sb \in
     {x \in subscriptions :
        /\ x.userId = u /\ x.status = "ACTIVE" /\ x.endsAt >= now
        /\ \A o \in subscriptions :
             (o.userId = u /\ o.status = "ACTIVE" /\ o.endsAt >= now)
               => o.createdAt <= x.createdAt}}

\* rows of student u created in calendar month w
RowsInMonth(u, w) ==
  {a \in applications : a.userId = u /\ a.createdAt \div MonthLen = w}

\* C4, as stated, for the caps C >= 1: the number of Application rows of a
\* student created within one calendar month never exceeds the cap of the
\* student's authoritative plan
C4_QuotaNeverExceeded ==
  \A u \in Students : \A c \in AuthoritativeCaps(u) :
    c >= 1 => \A w \in 0 .. (MaxTime \div MonthLen) :
                Cardinality(RowsInMonth(u, w)) <= c

\* C6: after two apply calls of one student for one internship that both held
\* every other precondition, however their existence checks and inserts
\* interleave, exactly one Application row of the pair exists: no pair ever
\* has two rows, and when a call that passed its existence check returns from
\* its insert, accepted or rejected, the pair has one row
C6_ExactlyOneRow ==
  /\ \A i \in InternshipIds, u \in Students : Cardinality(RowsOf(i, u)) <= 1
  /\ (resp.op = "apply" /\ resp.at \in {"ap_existing", "ap_create"})
       => Cardinality(RowsOf(resp.iid, resp.userId)) = 1

\* the second of two calls that both passed their existence check has
\* returned from its insert
C6_Witness ==
  /\ resp.op = "apply" /\ resp.at = "ap_create" /\ resp.result # "Success"
  /\ Cardinality(RowsOf(resp.iid, resp.userId)) = 1

\* C7, as stated: an apply call whose insert the unique index rejects is
\* answered as DuplicateApplication, not with an internal error
C7_RaceIsDuplicate ==
  (resp.op = "apply" /\ resp.at = "ap_create" /\ resp.result # "Success")
    => resp.result = "DuplicateApplication"

(***************************************************************************)
(* POST /company/applications/{applicationId}: updateApplicationStatus     *)
(* behind withCompanyAuth.                                                 *)
(***************************************************************************)
\* withCompanyAuth: the checks before the wrapped handler is called
CompanyGuard(tok) ==
  IF tok.kind = "none" THEN "Unauthenticated"
  ELSE IF ~jwtSecret THEN "ServerMisconfigured"
  ELSE IF tok.kind # "jwt" THEN "Unauthenticated"
  ELSE IF tok.role # "COMPANY" THEN "RoleMismatch"
  ELSE "ok"

\* the companyToken cookie of a request: the token company signup and login
\* issue to a company user; any other client sends what its browser holds
CompanyToken(u) ==
  IF u \in CompanyUsers THEN Jwt(u, "COMPANY", FALSE) ELSE cookie[u]

\* the status values a request body can carry: the enum and one outside it
StatusParams == ApplicationStatuses \cup {"HIRED"}

\* faulty variant: PENDING is not a valid target
StatusErrorNoPending(target) ==
  IF target \notin {"SHORTLISTED", "ACCEPTED", "REJECTED"}
    THEN "ValidationError" ELSE "ok"

\* validStatuses.includes(status)
StatusError(target) ==
  IF target \notin {"PENDING", "SHORTLISTED", "ACCEPTED", "REJECTED"}
    THEN "ValidationError" ELSE "ok"

\* faulty variant: an accepted application can still be rejected
TransitionErrorButRejected(current, target) ==
  IF current = "ACCEPTED" /\ target \notin {"ACCEPTED", "REJECTED"}
    THEN "InvalidTransition" ELSE "ok"

\* "Check if application is already in final state"
TransitionError(current, target) ==
  IF current = "ACCEPTED" /\ target # "ACCEPTED" THEN "InvalidTransition" ELSE "ok"

\* faulty variant: the company of the internship is not looked at
OwnedRowsAnyCompany(id, c) ==
  {a \in applications : a.id = id}

\* findFirst where id and internship.company.id: the rows it can return
OwnedRows(id, c) ==
  {a \in applications : a.id = id /\ internships[a.internshipId].companyId = c}

\* the guard, req.json(), the validation of the status, then
\* prisma.user.findUnique with the company
UpdateStatus_Begin(r, u, id, target) ==
  /\ req[r].pc = "idle"
  /\ LET tok == CompanyToken(u)
         g == CompanyGuard(tok)
         q == [Idle EXCEPT !.token = tok, !.op = "status", !.userId = tok.userId, !.appId = id,
                           !.target = target]
     IN IF g # "ok"
          THEN resp' = Response(q, g, "guard") /\ UNCHANGED req
        ELSE IF StatusError(target) # "ok"
          THEN resp' = Response(q, StatusError(target), "validate") /\ UNCHANGED req
        ELSE IF tok.userId \notin DOMAIN CompanyOf
          THEN resp' = Response(q, "NotFound", "us_user") /\ UNCHANGED req
        ELSE req' = [req EXCEPT ![r] = [q EXCEPT !.pc = "us_find"]] /\ UNCHANGED resp
  /\ UNCHANGED <<now, jwtSecret, cookie, campaigns, internships, payments, users, companies, subscriptions,
                 applications, successes>>

\* prisma.application.findFirst and the check of the status it read
UpdateStatus_Find(r) ==
  /\ req[r].pc = "us_find"
  /\ LET rows == OwnedRows(req[r].appId, CompanyOf[req[r].userId])
     IN IF rows = {}
          THEN Return(r, "NotFound")
          ELSE \E a \in rows :
                 IF TransitionError(a.status, req[r].target) # "ok"
                   THEN Return(r, TransitionError(a.status, req[r].target))
                   ELSE Goto(r, "us_write")
  /\ UNCHANGED <<now, jwtSecret, cookie, campaigns, internships, payments, users, companies, subscriptions,
                 applications, successes>>

\* prisma.application.update where id: status and updatedAt
UpdateStatus_Write(r) ==
  /\ req[r].pc = "us_write"
  /\ IF \E a \in applications : a.id = req[r].appId
       THEN /\ applications' =
                 {IF a.id = req[r].appId
                    THEN [a EXCEPT !.status = req[r].target, !.updatedAt = now]
                    ELSE a : a \in applications}
            /\ Return(r, "Success")
       ELSE /\ Return(r, "InternalError")
            /\ UNCHANGED applications
  /\ UNCHANGED <<now, jwtSecret, cookie, campaigns, internships, payments, users, companies, subscriptions,
                 successes>>

(***************************************************************************)
(* SpecStatus: concurrent status updates of the owning company on the      *)
(* application of student s2.                                              *)
(***************************************************************************)
NextStatus ==
  \/ \E r \in Reqs, u \in {"u1"}, target \in StatusParams :
       FirstFree(r) /\ UpdateStatus_Begin(r, u, InitRow.id, target)
  \/ \E r \in Reqs : UpdateStatus_Find(r)
  \/ \E r \in Reqs : UpdateStatus_Write(r)
  \/ Tick

SpecStatus == InitWith(SubBasic) /\ [][NextStatus]_vars

\* C2, as stated: in every execution and interleaving of status updates, an
\* application whose status is ACCEPTED is ACCEPTED in the next state too
C2_AcceptedIsFinal ==
  [][\A a \in applications :
       a.status = "ACCEPTED" =>
         \E b \in applications' : b.id = a.id /\ b.status = "ACCEPTED"]_vars

\* C3: when a status update of the owning company reads an application whose
\* stored status is ACCEPTED and its target is PENDING, SHORTLISTED or
\* REJECTED, it returns InvalidTransition from that step and the Application
\* rows (status and updatedAt) are unchanged
C3_AcceptedRejectsUpdate ==
  [][\A r \in Reqs :
       ( /\ req[r].pc = "us_find" /\ req'[r].pc # "us_find"
         /\ req[r].target \in {"PENDING", "SHORTLISTED", "REJECTED"}
         /\ \E a \in applications :
              /\ a.id = req[r].appId /\ a.status = "ACCEPTED"
              /\ internships[a.internshipId].companyId = CompanyOf[req[r].userId] )
       => ( /\ resp'.op = "status" /\ resp'.appId = req[r].appId
            /\ resp'.result = "InvalidTransition" /\ resp'.at = "us_find"
            /\ req'[r].pc = "idle"
            /\ applications' = applications )]_vars

\* a status update away from ACCEPTED was refused and the row is ACCEPTED
C3_Witness ==
  /\ resp.op = "status" /\ resp.result = "InvalidTransition"
  /\ resp.target \in {"PENDING", "SHORTLISTED", "REJECTED"}
  /\ \E a \in applications : a.id = resp.appId /\ a.status = "ACCEPTED"

\* the transitions of the application workflow of section 4.2
WorkflowTransitions ==
  ({"PENDING"} \X {"SHORTLISTED", "ACCEPTED", "REJECTED"})
    \cup ({"SHORTLISTED"} \X {"ACCEPTED", "REJECTED"})
    \cup ({"REJECTED"} \X {"PENDING", "SHORTLISTED", "ACCEPTED"})

\* C13, as stated: every change of the status of an application is a
\* transition of the workflow: PENDING to SHORTLISTED, ACCEPTED or REJECTED,
\* SHORTLISTED to ACCEPTED or REJECTED, REJECTED to any other status; none
\* goes from SHORTLISTED to PENDING and none leaves ACCEPTED
C13_OnlyWorkflowTransitions ==
  [][\A a \in applications, b \in applications' :
       (a.id = b.id /\ a.status # b.status) =>
         <<a.status, b.status>> \in WorkflowTransitions]_vars

(***************************************************************************)
(* PUT /company/campaigns/{campaignId}: editCampaign behind                *)
(* withCompanyAuth.  Of the fields it can write, status is the one the     *)
(* student-facing operations read.                                         *)
(***************************************************************************)
\* the status values the body of an edit can carry, "none" for no status
CampaignStatusParams == CampaignStatuses \cup {"none"}

\* faulty variant: every value of the enum can be set
SettableStatusAny(st) == st \in {"ACTIVE", "PAUSED", "COMPLETED", "EXPIRED"}

\* `status && ['ACTIVE', 'PAUSED', 'COMPLETED'].includes(status)`
SettableStatus(st) == st \in {"ACTIVE", "PAUSED", "COMPLETED"}

\* the guard, req.json(), then prisma.user.findUnique with the company
EditCampaign_Begin(r, u, k, st) ==
  /\ req[r].pc = "idle"
  /\ LET tok == CompanyToken(u)
         g == CompanyGuard(tok)
         q == [Idle EXCEPT !.token = tok, !.op = "edit", !.userId = tok.userId, !.iid = k,
                           !.target = st]
     IN IF g # "ok"
          THEN resp' = Response(q, g, "guard") /\ UNCHANGED req
        ELSE IF tok.userId \notin DOMAIN CompanyOf
          THEN resp' = Response(q, "NotFound", "ec_user") /\ UNCHANGED req
        ELSE req' = [req EXCEPT ![r] = [q EXCEPT !.pc = "ec_find"]] /\ UNCHANGED resp
  /\ UNCHANGED <<now, jwtSecret, cookie, campaigns, internships, payments, users, companies, subscriptions,
                 applications, successes>>

\* prisma.campaign.findFirst where id and companyId
EditCampaign_Find(r) ==
  /\ req[r].pc = "ec_find"
  /\ IF req[r].iid \in DOMAIN campaigns
          /\ campaigns[req[r].iid].companyId = CompanyOf[req[r].userId]
       THEN Goto(r, "ec_update")
       ELSE Return(r, "NotFound")
  /\ UNCHANGED <<now, jwtSecret, cookie, campaigns, internships, payments, users, companies, subscriptions,
                 applications, successes>>

\* prisma.campaign.update where id with the fields of updateData
EditCampaign_Update(r) ==
  /\ req[r].pc = "ec_update"
  /\ campaigns' = IF SettableStatus(req[r].target)
                    THEN [campaigns EXCEPT ![req[r].iid].status = req[r].target]
                    ELSE campaigns
  /\ Return(r, "Success")
  /\ UNCHANGED <<now, jwtSecret, cookie, internships, payments, users, companies, subscriptions,
                 applications, successes>>

(***************************************************************************)
(* GET /student/internships and GET /student/internships/{internshipId}    *)
(* behind withPaidStudentAuth.  A returned internship is kept with the     *)
(* values of its row, of its campaign and of the clock when it was read.   *)
(***************************************************************************)
Snap(i) ==
  [id |-> i, isActive |-> internships[i].isActive,
   deadline |-> internships[i].deadline,
   campaignStatus |-> campaigns[internships[i].campaignId].status,
   readAt |-> now]

\* default of the `limit` query parameter
DefaultLimit == 20

\* the skill filter of the list, "none" for no filter
SkillParams == {"none", "go"}
PageParams == {1, 2}

\* whereClause of getInternships, with the skills filter
ListWhere(i, skill) ==
  /\ internships[i].isActive
  /\ internships[i].deadline >= now
  /\ campaigns[internships[i].campaignId].status = "ACTIVE"
  /\ skill # "none" => skill \in internships[i].skills

\* skip (page - 1) * limit, take limit, of at most limit matching rows
Page(rows, page) ==
  IF (page - 1) * DefaultLimit >= Cardinality(rows) THEN {} ELSE rows

\* the guard, the query parameters, then prisma.internship.count
List_Begin(r, s, skill, page) ==
  /\ req[r].pc = "idle"
  /\ LET tok == cookie[s]
         g == PaidStudentGuard(tok)
         q == [Idle EXCEPT !.token = tok, !.op = "list", !.userId = tok.userId,
                           !.target = skill, !.cap = page]
     IN IF g # "ok"
          THEN resp' = Response(q, g, "guard") /\ UNCHANGED req
          ELSE req' = [req EXCEPT ![r] = [q EXCEPT !.pc = "li_find"]] /\ UNCHANGED resp
  /\ UNCHANGED <<now, jwtSecret, cookie, campaigns, internships, payments, users, companies, subscriptions,
                 applications, successes>>

\* prisma.internship.findMany; the filter options that are read after it do
\* not change the internships of the response
List_Find(r) ==
  /\ req[r].pc = "li_find"
  /\ LET rows == {i \in DOMAIN internships : ListWhere(i, req[r].target)}
     IN /\ Cardinality(rows) <= DefaultLimit
        /\ resp' = [Response(req[r], "Success", "li_find") EXCEPT
                      !.returned = {Snap(i) : i \in Page(rows, req[r].cap)}]
        /\ req' = [req EXCEPT ![r] = Idle]
  /\ UNCHANGED <<now, jwtSecret, cookie, campaigns, internships, payments, users, companies, subscriptions,
                 applications, successes>>

\* the guard, then prisma.internship.findUnique where id, isActive and
\* deadline gte now, and the check of its campaign
Detail_Begin(r, s, i) ==
  /\ req[r].pc = "idle"
  /\ LET tok == cookie[s]
         g == PaidStudentGuard(tok)
         q == [Idle EXCEPT !.token = tok, !.op = "detail", !.userId = tok.userId, !.iid = i]
     IN IF g # "ok"
          THEN resp' = Response(q, g, "guard") /\ UNCHANGED req
        ELSE IF ~(i \in DOMAIN internships /\ internships[i].isActive
                  /\ internships[i].deadline >= now)
          THEN resp' = Response(q, "NotFound", "de_find") /\ UNCHANGED req
        ELSE IF campaigns[internships[i].campaignId].status # "ACTIVE"
          THEN resp' = Response(q, "CampaignInactive", "de_find") /\ UNCHANGED req
        ELSE /\ req' = [req EXCEPT ![r] =
                          [q EXCEPT !.pc = "de_similar", !.found = {Snap(i)}]]
             /\ UNCHANGED resp
  /\ UNCHANGED <<now, jwtSecret, cookie, campaigns, internships, payments, users, companies, subscriptions,
                 applications, successes>>

\* where clause of the similar-internships query
SimilarWhere(x, i) ==
  /\ x # i
  /\ internships[x].isActive
  /\ internships[x].deadline >= now
  /\ \/ internships[x].companyId = internships[i].companyId
     \/ internships[x].skills \cap internships[i].skills # {}

\* prisma.internship.findMany of the similar internships, take 5
Detail_Similar(r) ==
  /\ req[r].pc = "de_similar"
  /\ LET rows == {x \in DOMAIN internships : SimilarWhere(x, req[r].iid)}
     IN \E taken \in SUBSET rows :
          /\ Cardinality(taken) =
               (IF Cardinality(rows) <= TakeSimilar THEN Cardinality(rows) ELSE TakeSimilar)
          /\ resp' = [Response(req[r], "Success", "de_similar") EXCEPT
                        !.returned = req[r].found \cup {Snap(x) : x \in taken}]
          /\ req' = [req EXCEPT ![r] = Idle]
  /\ UNCHANGED <<now, jwtSecret, cookie, campaigns, internships, payments, users, companies, subscriptions,
                 applications, successes>>

(***************************************************************************)
(* SpecRead: the reads of student s1 and the edits of company user u1 to   *)
(* the status of its campaigns, one request at a time, while time passes.  *)
(***************************************************************************)
NextRead ==
  \/ \E s \in {"s1"} : StudentLogin(s)
  \/ \E r \in Reqs, s \in {"s1"}, skill \in SkillParams, page \in PageParams :
       Quiet /\ FirstFree(r) /\ List_Begin(r, s, skill, page)
  \/ \E r \in Reqs : List_Find(r)
  \/ \E r \in Reqs, s \in {"s1"}, i \in InternshipParams :
       Quiet /\ FirstFree(r) /\ Detail_Begin(r, s, i)
  \/ \E r \in Reqs : Detail_Similar(r)
  \/ \E r \in Reqs, u \in {"u1"}, k \in CampaignIds, st \in {"ACTIVE", "PAUSED", "COMPLETED", "EXPIRED"} :
       Quiet /\ FirstFree(r) /\ EditCampaign_Begin(r, u, k, st)
  \/ \E r \in Reqs : EditCampaign_Find(r)
  \/ \E r \in Reqs : EditCampaign_Update(r)
  \/ Tick

SpecRead == InitWith(SubBasic) /\ [][NextRead]_vars

\* C5, as stated: every internship a student-facing read returns (list,
\* detail, similar internships of the detail) was, when it was read, active,
\* not past its deadline and under a campaign of status ACTIVE
C5_OnlyVisibleReturned ==
  resp.op \in {"list", "detail"} =>
    \A x \in resp.returned :
      x.isActive /\ x.deadline >= x.readAt /\ x.campaignStatus = "ACTIVE"

(***************************************************************************)
(* SpecSeq: apply requests of student s1 one at a time, against every      *)
(* subscription state, while company user u1 pauses and resumes campaign   *)
(* k2 and time passes between the requests.                                *)
(***************************************************************************)
InitSeq ==
  \E subs \in {SubBasic, SubExpiring, SubPro, SubTrial, SubCanceled} : InitWith(subs)

NextSeq ==
  \/ \E s \in {"s1"} : StudentLogin(s)
  \/ \E r \in Reqs, s \in {"s1"}, i \in InternshipParams, l \in ReqLetters :
       Quiet /\ FirstFree(r) /\ Apply_Begin(r, s, i, l)
  \/ \E r \in Reqs : Apply_Existing(r)
  \/ \E r \in Reqs : Apply_User(r)
  \/ \E r \in Reqs : Apply_Count(r)
  \/ \E r \in Reqs : Apply_Create(r)
  \/ \E r \in Reqs, u \in {"u1"}, k \in {"k2"}, st \in {"ACTIVE", "PAUSED"} :
       Quiet /\ FirstFree(r) /\ EditCampaign_Begin(r, u, k, st)
  \/ \E r \in Reqs : EditCampaign_Find(r)
  \/ \E r \in Reqs : EditCampaign_Update(r)
  \/ Quiet /\ Tick

SpecSeq == InitSeq /\ [][NextSeq]_vars

\* this step returns the response of an apply request that passed the guard
ApplyReturns ==
  /\ resp'.op = "apply" /\ resp'.at # "guard"
  /\ \/ resp' # resp
     \/ \E r \in Reqs : req[r].op = "apply" /\ req[r].pc # "idle" /\ req'[r].pc = "idle"

\* this step returns the response of an apply request of a student
StudentApplyReturns ==
  /\ resp'.op = "apply" /\ resp'.userId \in Students
  /\ \/ resp' # resp
     \/ \E r \in Reqs : req[r].op = "apply" /\ req[r].pc # "idle" /\ req'[r].pc = "idle"

\* precondition 7 of the apply operation: a subscription of status ACTIVE
\* whose endsAt has not passed
HoldsSubscription(u) ==
  \E sb \in subscriptions : sb.userId = u /\ sb.status = "ACTIVE" /\ sb.endsAt >= now

\* the outcome section 4.2 prescribes for apply(i, u, letter) in this state:
\* the error of the lowest-numbered failing precondition
ApplyOutcome(u, i, l) ==
  IF ~(Length(Trim(l)) >= 50 /\ Length(Trim(l)) <= 2000) THEN "ValidationError"
  ELSE IF i \notin DOMAIN internships THEN "NotFound"
  ELSE IF ~internships[i].isActive THEN "Closed"
  ELSE IF campaigns[internships[i].campaignId].status # "ACTIVE" THEN "CampaignInactive"
  ELSE IF ~(now <= internships[i].deadline) THEN "DeadlinePassed"
  ELSE IF RowsOf(i, u) # {} THEN "DuplicateApplication"
  ELSE IF ~HoldsSubscription(u) THEN "SubscriptionRequired"
  ELSE IF \E c \in AuthoritativeCaps(u) :
            c # NoCap /\ Cardinality(RowsInMonth(u, now \div MonthLen)) >= c
    THEN "QuotaExceeded"
  ELSE "Success"

\* C8, as stated: an Application row is created only while the student holds
\* a subscription of status ACTIVE whose endsAt has not passed, and an apply
\* call of a student without one is answered SubscriptionRequired and creates
\* no row, whatever the flag of the token
C8_AlwaysSubscriptionRequired ==
  [][StudentApplyReturns =>
       /\ applications' # applications => HoldsSubscription(resp'.userId)
       /\ ~HoldsSubscription(resp'.userId) =>
            (resp'.result = "SubscriptionRequired" /\ applications' = applications)]_vars

\* C8, amended: an Application row is created only while the student holds a
\* subscription of status ACTIVE whose endsAt has not passed; an apply call of
\* a student without one creates no row, whatever the flag of the token, and
\* is answered SubscriptionRequired (by the guard when the flag is false, by
\* the check of apply otherwise) unless the flag is true and one of the
\* preconditions 1-6 fails, which is then the error returned
C8_NoRowWithoutSubscription ==
  [][StudentApplyReturns =>
       /\ applications' # applications => HoldsSubscription(resp'.userId)
       /\ ~HoldsSubscription(resp'.userId) =>
            /\ applications' = applications
            /\ resp'.result # "Success"
            /\ resp'.at \in {"guard", "validate", "ap_internship", "ap_existing", "ap_user"}
            /\ resp'.at \in {"guard", "ap_user"} => resp'.result = "SubscriptionRequired"
            /\ resp'.at = "guard" => ~cookie[resp'.userId].hasActiveSubscription
            /\ resp'.at = "validate" => resp'.result = "ValidationError"
            /\ resp'.at = "ap_internship" =>
                 resp'.result \in {"NotFound", "Closed", "CampaignInactive", "DeadlinePassed"}
            /\ resp'.at = "ap_existing" => resp'.result = "DuplicateApplication"]_vars

\* a student whose token still carries the flag and whose subscription has
\* ended was answered SubscriptionRequired by the check of apply
C8_Witness ==
  /\ resp.op = "apply" /\ resp.at = "ap_user" /\ resp.result = "SubscriptionRequired"
  /\ resp.userId \in Students
  /\ cookie[resp.userId].hasActiveSubscription
  /\ ~HoldsSubscription(resp.userId)

\* C9, as stated: apply returns the error of the lowest-numbered failing
\* precondition of section 4.2, and creates an application, of status
\* PENDING, if and only if all eight hold
C9_FirstFailingPrecondition ==
  [][ApplyReturns =>
       /\ resp'.result = ApplyOutcome(resp'.userId, resp'.iid, resp'.letter)
       /\ (applications' # applications)
            <=> (ApplyOutcome(resp'.userId, resp'.iid, resp'.letter) = "Success")
       /\ \A a \in applications' \ applications :
            a.status = "PENDING" /\ a.id = resp'.appId]_vars

(***************************************************************************)
(* SpecLetter: the cover-letter validation of apply on letters of every    *)
(* length around its bounds.                                               *)
(***************************************************************************)
NextLetter ==
  \/ StudentLogin("s1")
  \/ \E r \in Reqs, l \in AllLetters :
       Quiet /\ FirstFree(r) /\ Apply_Begin(r, "s1", "i2", l)
  \/ \E r \in Reqs : Apply_Existing(r)
  \/ \E r \in Reqs : Apply_User(r)
  \/ \E r \in Reqs : Apply_Create(r)

SpecLetter == InitWith(SubPro) /\ [][NextLetter]_vars

\* C10, as stated: apply passes the cover-letter validation if and only if
\* the trimmed letter has between 50 and 2000 characters, whatever whitespace
\* surrounds it
C10_TrimmedLengthDecides ==
  (resp.op = "apply" /\ resp.at # "guard") =>
    ( (resp.at = "validate" /\ resp.result = "ValidationError")
        <=> ~(Length(Trim(resp.letter)) >= 50 /\ Length(Trim(resp.letter)) <= 2000) )

(***************************************************************************)
(* POST /company/campaigns: launchCampaign behind withCompanyAuth.         *)
(***************************************************************************)
\* the ids the store gives to new Campaign rows, in the order of creation
NewCampaignIds == <<"k3", "k4">>

\* the kinds of value of paymentMethod in a body that has the required
\* fields: a string, or a number (truthy, but not a String for the store)
MethodParams == {"text", "number"}

\* transactionId of the body: absent, the empty string, a string, a number
TransactionParams == {"none", "empty", "t1", "number"}

LaunchBodies ==
  {Body(f, m, t) : f \in BOOLEAN, m \in MethodParams, t \in TransactionParams}

\* `!title || !budget || !endDate || !maxInternships || !paymentMethod`
LaunchError(b) == IF ~b.fields THEN "ValidationError" ELSE "ok"

\* tx.campaignPayment.create rejects a paymentMethod or a transactionId that
\* is not a String
PaymentInsertError(b) == b.paymentMethod # "text" \/ b.transactionId = "number"

\* faulty variant: every payment is created PENDING
PaymentStatusAlwaysPending(t) == "PENDING"

\* `transactionId ? 'COMPLETED' : 'PENDING'`: absent and "" are falsy
PaymentStatus(t) == IF t \in {"none", "empty"} THEN "PENDING" ELSE "COMPLETED"

\* faulty variant: the writes are not in a transaction
CommittedNoRollback(before, after, ok) == after

\* prisma.$transaction: the writes of the callback are applied together when
\* it returns, and none of them when it throws
Committed(before, after, ok) == IF ok THEN after ELSE before

\* the launches that have not reached their transaction
LaunchesInFlight == {r \in Reqs : req[r].op = "launch" /\ req[r].pc # "idle"}

\* Campaign rows created by launches
Launched == {n \in 1..Len(NewCampaignIds) : NewCampaignIds[n] \in DOMAIN campaigns}

\* the guard, req.json(), the required fields, then prisma.user.findUnique
\* with the company
Launch_Begin(r, u, b) ==
  /\ req[r].pc = "idle"
  /\ Cardinality(Launched) + Cardinality(LaunchesInFlight) < Len(NewCampaignIds)
  /\ LET tok == CompanyToken(u)
         g == CompanyGuard(tok)
         q == [Idle EXCEPT !.token = tok, !.op = "launch", !.userId = tok.userId,
                           !.body = b]
     IN IF g # "ok"
          THEN resp' = Response(q, g, "guard") /\ UNCHANGED req
        ELSE IF LaunchError(b) # "ok"
          THEN resp' = Response(q, LaunchError(b), "validate") /\ UNCHANGED req
        ELSE IF tok.userId \notin DOMAIN CompanyOf
          THEN resp' = Response(q, "NotFound", "lc_user") /\ UNCHANGED req
        ELSE req' = [req EXCEPT ![r] = [q EXCEPT !.pc = "lc_create"]] /\ UNCHANGED resp
  /\ UNCHANGED <<now, jwtSecret, cookie, campaigns, internships, payments, users, companies, subscriptions,
                 applications, successes>>

\* prisma.$transaction: tx.campaign.create, then tx.campaignPayment.create;
\* a throw inside rolls back and reaches the catch block
Launch_Transaction(r) ==
  /\ req[r].pc = "lc_create"
  /\ LET b == req[r].body
         k == NewCampaignIds[Cardinality(Launched) + 1]
         ok == ~PaymentInsertError(b)
         withCampaign == campaigns @@
                           (k :> [status |-> "ACTIVE", companyId |-> CompanyOf[req[r].userId]])
         withPayment == payments \cup
                           {Payment(k, b.transactionId, PaymentStatus(b.transactionId))}
     IN /\ campaigns' = Committed(campaigns, withCampaign, ok)
        /\ payments' = IF ok THEN withPayment ELSE payments
        /\ resp' = [Response(req[r], IF ok THEN "Success" ELSE "InternalError", "lc_create")
                      EXCEPT !.iid = k]
        /\ req' = [req EXCEPT ![r] = Idle]
  /\ UNCHANGED <<now, jwtSecret, cookie, internships, users, companies, subscriptions,
                 applications, successes>>

(***************************************************************************)
(* SpecLaunch: concurrent campaign launches of company user u1.            *)
(***************************************************************************)
NextLaunch ==
  \/ \E r \in Reqs, u \in {"u1"}, b \in LaunchBodies :
       FirstFree(r) /\ Launch_Begin(r, u, b)
  \/ \E r \in Reqs : Launch_Transaction(r)

SpecLaunch == InitWith(SubBasic) /\ [][NextLaunch]_vars

\* the CampaignPayment rows of campaign k
PaymentsOf(k) == {p \in payments : p.campaignId = k}

\* C11: in every state every Campaign row has exactly one CampaignPayment
\* row; a launch whose payment insert fails leaves Campaign and
\* CampaignPayment as they were, and a launch that succeeds has created a
\* campaign of status ACTIVE
C11_LaunchAllOrNothing ==
  /\ [](\A k \in DOMAIN campaigns : Cardinality(PaymentsOf(k)) = 1)
  /\ [][\A r \in Reqs :
          (req[r].pc = "lc_create" /\ req'[r].pc = "idle") =>
            IF PaymentInsertError(req[r].body)
              THEN /\ resp'.result = "InternalError"
                   /\ campaigns' = campaigns /\ payments' = payments
              ELSE /\ resp'.result = "Success"
                   /\ resp'.iid \in DOMAIN campaigns' \ DOMAIN campaigns
                   /\ campaigns'[resp'.iid].status = "ACTIVE"
                   /\ DOMAIN campaigns' = DOMAIN campaigns \cup {resp'.iid}]_vars

\* a launch whose payment insert failed has returned, and another launch has
\* created its campaign
C11_Witness ==
  /\ resp.op = "launch" /\ resp.result = "InternalError"
  /\ PaymentInsertError(resp.body)
  /\ resp.iid \notin DOMAIN campaigns
  /\ NewCampaignIds[1] \in DOMAIN campaigns

\* C12: the CampaignPayment of a successful launch is COMPLETED when the
\* request carried a transactionId (a non-empty string) and PENDING
\* otherwise, and no payment is FAILED or REFUNDED
C12_PaymentStatusFromTransactionId ==
  /\ \A p \in payments : p.status \in {"PENDING", "COMPLETED"}
  /\ (resp.op = "launch" /\ resp.result = "Success") =>
       /\ PaymentsOf(resp.iid) # {}
       /\ \A p \in PaymentsOf(resp.iid) :
            /\ p.transactionId = resp.body.transactionId
            /\ p.status = IF resp.body.transactionId \in {"none", "empty"}
                            THEN "PENDING" ELSE "COMPLETED"

\* launches with and without a transactionId have both succeeded
C12_Witness ==
  /\ resp.op = "launch" /\ resp.result = "Success"
  /\ \E p \in payments : p.campaignId \in DOMAIN campaigns \ CampaignIds /\ p.status = "COMPLETED"
  /\ \E p \in payments : p.campaignId \in DOMAIN campaigns \ CampaignIds /\ p.status = "PENDING"

(***************************************************************************)
(* SpecCompany: status updates and campaign edits of the users of two      *)
(* companies, one request at a time.  Company c1 owns every campaign and   *)
(* internship, company c2 none.                                            *)
(***************************************************************************)
\* the applicationId path parameter: the stored row and an id not stored
ApplicationParams == {InitRow.id, RowId("i9", "s2", 1)}

\* the campaignId path parameter: a stored id and one that is not stored
CampaignParams == {"k1", "k9"}

\* the status values an edit can carry: the enum, none, and one outside it
EditStatusParams == CampaignStatusParams \cup {"ARCHIVED"}

NextCompany ==
  \/ \E r \in Reqs, u \in CompanyUsers, id \in ApplicationParams, target \in StatusParams :
       Quiet /\ FirstFree(r) /\ UpdateStatus_Begin(r, u, id, target)
  \/ \E r \in Reqs : UpdateStatus_Find(r)
  \/ \E r \in Reqs : UpdateStatus_Write(r)
  \/ \E r \in Reqs, u \in CompanyUsers, k \in CampaignParams, st \in EditStatusParams :
       Quiet /\ FirstFree(r) /\ EditCampaign_Begin(r, u, k, st)
  \/ \E r \in Reqs : EditCampaign_Find(r)
  \/ \E r \in Reqs : EditCampaign_Update(r)

SpecCompany == InitWith(SubBasic) /\ [][NextCompany]_vars

\* this step returns the response of a request of operation op that passed
\* the guard
Returns(op) ==
  /\ resp'.op = op /\ resp'.at # "guard"
  /\ \/ resp' # resp
     \/ \E r \in Reqs : req[r].op = op /\ req[r].pc # "idle" /\ req'[r].pc = "idle"

\* the stored application id belongs to an internship of the company of u
OwnsApplication(u, id) ==
  \E a \in applications : a.id = id /\ internships[a.internshipId].companyId = CompanyOf[u]

\* the stored campaign k belongs to the company of u
OwnsCampaign(u, k) ==
  k \in DOMAIN campaigns /\ campaigns[k].companyId = CompanyOf[u]

\* the store but for the Application rows, and but for the Campaign rows
StoreButApplications == <<campaigns, internships, payments, users, companies, subscriptions>>
StoreButCampaigns == <<applications, internships, payments, users, companies, subscriptions>>

\* C14: a status update of the owning company with a target of the enum on
\* an application that is not ACCEPTED succeeds and stores the target,
\* whatever the current status; a target outside the enum is answered with a
\* validation error and changes nothing
C14_UpdateOverwrites ==
  [][Returns("status") =>
       /\ resp'.target \notin ApplicationStatuses =>
            (resp'.result = "ValidationError" /\ applications' = applications)
       /\ ( /\ resp'.target \in ApplicationStatuses
            /\ OwnsApplication(resp'.userId, resp'.appId)
            /\ \A a \in applications : a.id = resp'.appId => a.status # "ACCEPTED" )
          => ( /\ resp'.result = "Success"
               /\ \E b \in applications' : b.id = resp'.appId /\ b.status = resp'.target
               /\ \A a \in applications : a.id # resp'.appId => a \in applications' )]_vars

\* a status update of the owner with target SHORTLISTED has succeeded and
\* the row is SHORTLISTED
C14_Witness ==
  /\ resp.op = "status" /\ resp.result = "Success" /\ resp.target = "SHORTLISTED"
  /\ OwnsApplication(resp.userId, resp.appId)
  /\ \E a \in applications : a.id = resp.appId /\ a.status = "SHORTLISTED"

\* C15, as stated: a status update or campaign edit of a user whose company
\* does not own the application or the campaign is answered NotFound and
\* changes nothing, and the rows change only on a call of the owner
C15_NotOwnerNotFound ==
  [][/\ Returns("status") =>
          /\ applications' # applications => OwnsApplication(resp'.userId, resp'.appId)
          /\ ~OwnsApplication(resp'.userId, resp'.appId) =>
               (resp'.result = "NotFound" /\ applications' = applications)
     /\ Returns("edit") =>
          /\ campaigns' # campaigns => OwnsCampaign(resp'.userId, resp'.iid)
          /\ ~OwnsCampaign(resp'.userId, resp'.iid) =>
               (resp'.result = "NotFound" /\ campaigns' = campaigns)]_vars

\* C15, amended: a status update changes an application only if its
\* internship belongs to the company of the caller, and a campaign edit
\* changes a campaign only if it belongs to the company of the caller;
\* otherwise the store is unchanged and the call is answered NotFound, but
\* for a status update whose target is outside the enum, which is answered
\* with the validation error
C15_TenantIsolation ==
  [][/\ Returns("status") =>
          /\ applications' # applications => OwnsApplication(resp'.userId, resp'.appId)
          /\ UNCHANGED StoreButApplications
          /\ ~OwnsApplication(resp'.userId, resp'.appId) =>
               /\ applications' = applications
               /\ resp'.result = IF resp'.target \in ApplicationStatuses
                                   THEN "NotFound" ELSE "ValidationError"
     /\ Returns("edit") =>
          /\ campaigns' # campaigns => OwnsCampaign(resp'.userId, resp'.iid)
          /\ UNCHANGED StoreButCampaigns
          /\ ~OwnsCampaign(resp'.userId, resp'.iid) =>
               (resp'.result = "NotFound" /\ campaigns' = campaigns)
     /\ \A r \in Reqs :
          /\ req[r].pc = "us_write" => OwnsApplication(req[r].userId, req[r].appId)
          /\ req[r].pc = "ec_update" => OwnsCampaign(req[r].userId, req[r].iid)]_vars

\* a user of the other company was answered NotFound for the stored
\* application, which the owner has updated, and for a stored campaign
C15_Witness ==
  /\ resp.result = "NotFound" /\ resp.userId = "u2"
  /\ \/ resp.op = "status" /\ resp.appId = InitRow.id
     \/ resp.op = "edit" /\ resp.iid \in CampaignIds
  /\ \E a \in applications : a.id = InitRow.id /\ a.status # "PENDING"

\* C18: the update of a campaign edit leaves the status of the campaign as
\* it was or sets it to the requested value when that is ACTIVE, PAUSED or
\* COMPLETED; it never sets EXPIRED, and a request with EXPIRED or any other
\* value leaves the status unchanged
C18_EditStatusSettable ==
  [][\A r \in Reqs :
       (req[r].pc = "ec_update" /\ req'[r].pc = "idle") =>
         LET k == req[r].iid
             st == req[r].target
         IN /\ DOMAIN campaigns' = DOMAIN campaigns
            /\ \A o \in DOMAIN campaigns : o # k => campaigns'[o] = campaigns[o]
            /\ campaigns'[k].status =
                 IF st \in {"ACTIVE", "PAUSED", "COMPLETED"} THEN st
                 ELSE campaigns[k].status
            /\ campaigns'[k].status = "EXPIRED" => campaigns[k].status = "EXPIRED"]_vars

\* an edit carrying EXPIRED has succeeded on a campaign that stays PAUSED
C18_Witness ==
  /\ resp.op = "edit" /\ resp.result = "Success" /\ resp.target = "EXPIRED"
  /\ resp.iid \in DOMAIN campaigns
  /\ campaigns[resp.iid].status = "PAUSED"

(***************************************************************************)
(* PUT /student/applications/{applicationId}: updateApplication behind     *)
(* withStudentAuth.                                                        *)
(***************************************************************************)
\* a second letter that passes the validation
OtherLetter == Letter(0, 51, 0)

\* a letter of more than 2000 characters
LongLetter == Letter(0, MaxCoverLetter + 1, 0)

\* the cover letters an edit is exercised on
EditLetters == {ShortLetter, GoodLetter, OtherLetter, LongLetter}

\* `!coverLetter || coverLetter.trim().length < 50`: the edit has no upper bound
EditLetterError(s) ==
  IF Length(s) = 0 \/ Length(Trim(s)) < MinCoverLetter THEN "ValidationError" ELSE "ok"

\* faulty variant: the owner of the application is not looked at
RowsOfUserAnyUser(id, u) ==
  {a \in applications : a.id = id}

\* prisma.application.findFirst where id and userId: the rows it can return
RowsOfUser(id, u) ==
  {a \in applications : a.id = id /\ a.userId = u}

\* the guard, req.json() and the validation of the cover letter
UpdateLetter_Begin(r, s, id, l) ==
  /\ req[r].pc = "idle"
  /\ LET tok == cookie[s]
         g == StudentGuard(tok)
         q == [Idle EXCEPT !.token = tok, !.op = "letter", !.userId = tok.userId,
                           !.appId = id, !.letter = l]
     IN IF g # "ok"
          THEN resp' = Response(q, g, "guard") /\ UNCHANGED req
        ELSE IF EditLetterError(l) # "ok"
          THEN resp' = Response(q, EditLetterError(l), "validate") /\ UNCHANGED req
        ELSE req' = [req EXCEPT ![r] = [q EXCEPT !.pc = "ul_find"]] /\ UNCHANGED resp
  /\ UNCHANGED <<now, jwtSecret, cookie, campaigns, internships, payments, users, companies, subscriptions,
                 applications, successes>>

\* faulty variant: the row is updated before its status is checked
UpdateLetter_WriteThenCheck(r) ==
  /\ req[r].pc = "ul_find"
  /\ LET rows == RowsOfUser(req[r].appId, req[r].userId)
     IN IF rows = {}
          THEN Return(r, "NotFound") /\ UNCHANGED applications
          ELSE \E a \in rows :
                 /\ applications' =
                      {IF x.id = a.id
                         THEN [x EXCEPT !.coverLetter = Trim(req[r].letter)]
                         ELSE x : x \in applications}
                 /\ Return(r, IF a.status # "PENDING" THEN "NotPending" ELSE "Success")
  /\ UNCHANGED <<now, jwtSecret, cookie, campaigns, internships, payments, users, companies,
                 subscriptions, successes>>

\* prisma.application.findFirst and the check of the status it read
UpdateLetter_Find(r) ==
  /\ req[r].pc = "ul_find"
  /\ LET rows == RowsOfUser(req[r].appId, req[r].userId)
     IN IF rows = {}
          THEN Return(r, "NotFound")
          ELSE \E a \in rows :
                 IF a.status # "PENDING"
                   THEN Return(r, "NotPending")
                   ELSE Goto(r, "ul_write")
  /\ UNCHANGED <<now, jwtSecret, cookie, campaigns, internships, payments, users, companies, subscriptions,
                 applications, successes>>

\* prisma.application.update where id: the trimmed cover letter
UpdateLetter_Write(r) ==
  /\ req[r].pc = "ul_write"
  /\ IF \E a \in applications : a.id = req[r].appId
       THEN /\ applications' =
                 {IF a.id = req[r].appId
                    THEN [a EXCEPT !.coverLetter = Trim(req[r].letter)]
                    ELSE a : a \in applications}
            /\ Return(r, "Success")
       ELSE /\ Return(r, "InternalError")
            /\ UNCHANGED applications
  /\ UNCHANGED <<now, jwtSecret, cookie, campaigns, internships, payments, users, companies, subscriptions,
                 successes>>

(***************************************************************************)
(* SpecEdit: cover-letter edits of the students on the application of      *)
(* student s2, concurrent with status updates of the owning company.       *)
(***************************************************************************)
NextEdit ==
  \/ \E s \in {"s1", "s2"} : StudentLogin(s)
  \/ \E r \in Reqs, s \in {"s1", "s2"}, l \in EditLetters :
       FirstFree(r) /\ UpdateLetter_Begin(r, s, InitRow.id, l)
  \/ \E r \in Reqs : UpdateLetter_Find(r)
  \/ \E r \in Reqs : UpdateLetter_Write(r)
  \/ \E r \in Reqs, u \in {"u1"}, target \in {"PENDING", "SHORTLISTED"} :
       FirstFree(r) /\ UpdateStatus_Begin(r, u, InitRow.id, target)
  \/ \E r \in Reqs : UpdateStatus_Find(r)
  \/ \E r \in Reqs : UpdateStatus_Write(r)

SpecEdit == InitWith(SubBasic) /\ [][NextEdit]_vars

\* C16, as stated: in every interleaving of a cover-letter edit with a
\* status update, the write of the cover letter is applied only to an
\* application whose stored status is PENDING
C16_LetterWrittenOnlyWhilePending ==
  [][\A r \in Reqs :
       (req[r].pc = "ul_write" /\ req'[r].pc = "idle" /\ applications' # applications) =>
         \A a \in applications : a.id = req[r].appId => a.status = "PENDING"]_vars

\* this step is a step of a cover-letter edit
LetterStep ==
  \/ resp' # resp /\ resp'.op = "letter"
  \/ \E r \in Reqs : req'[r] # req[r] /\ (req[r].op = "letter" \/ req'[r].op = "letter")

\* a step of an edit leaves every application but for the cover letter of the
\* one it names, and that one too unless it is the caller's
LetterFrame ==
  /\ \A a \in applications :
       \E b \in applications' :
         /\ b.id = a.id /\ b.status = a.status /\ b.internshipId = a.internshipId
         /\ b.userId = a.userId /\ b.createdAt = a.createdAt
         /\ b.coverLetter # a.coverLetter =>
              (resp'.op = "letter" /\ a.id = resp'.appId /\ a.userId = resp'.userId)
  /\ Cardinality(applications') = Cardinality(applications)
  /\ UNCHANGED <<campaigns, internships, payments, users, companies, subscriptions>>

\* C17, as stated: an edit changes only the cover letter of an application of
\* the caller and leaves status, internshipId, userId and the other
\* applications; for an application of another student it answers NotFound
\* and changes nothing
C17_NotOwnNotFound ==
  [][LetterStep =>
       /\ LetterFrame
       /\ ( /\ resp' # resp /\ resp'.at # "guard"
            /\ \E a \in applications : a.id = resp'.appId /\ a.userId # resp'.userId )
          => (resp'.result = "NotFound" /\ applications' = applications)]_vars

\* C17, amended: an edit changes only the cover letter of an application of
\* the caller and leaves status, internshipId, userId and the other
\* applications; for an application of another student it changes nothing
\* and answers NotFound, or the validation error when the cover letter it
\* carries is invalid
C17_EditFrame ==
  [][LetterStep =>
       /\ LetterFrame
       /\ ( /\ resp' # resp /\ resp'.at # "guard"
            /\ \E a \in applications : a.id = resp'.appId /\ a.userId # resp'.userId )
          => ( /\ applications' = applications
               /\ resp'.result = IF EditLetterError(resp'.letter) = "ok"
                                   THEN "NotFound" ELSE "ValidationError" )]_vars

\* student s1 was answered NotFound for the application of s2, whose cover
\* letter s2 has edited
C17_Witness ==
  /\ resp.op = "letter" /\ resp.result = "NotFound" /\ resp.userId = "s1"
  /\ resp.appId = InitRow.id
  /\ \E a \in applications :
       a.id = InitRow.id /\ a.userId = "s2" /\ a.coverLetter = Trim(OtherLetter)

(***************************************************************************)
(* SpecGuard: requests through withStudentAuth (the cover-letter edit) and *)
(* withCompanyAuth (the status update) with every kind of token cookie,    *)
(* with and without JWT_SECRET, one request at a time.                     *)
(***************************************************************************)
\* a cookie value that jwt.verify rejects: kind is "garbage" for a string
\* that is no token, "forged" for a wrong signature, "expired" for a token
\* issued more than 7 days ago
BadToken(kind) == [kind |-> kind, userId |-> "none", role |-> "none",
                   hasActiveSubscription |-> FALSE]

\* the values a client can send as its token cookie
TokenParams ==
  {NoToken, BadToken("garbage"), BadToken("forged"), BadToken("expired"),
   Jwt("s2", "STUDENT", TRUE), Jwt("s2", "STUDENT", FALSE), Jwt("u1", "COMPANY", FALSE)}

\* the browser of client s sends tok from now on
SetCookie(s, tok) ==
  /\ cookie' = [cookie EXCEPT ![s] = tok]
  /\ cookie'[s] # cookie[s]
  /\ UNCHANGED <<now, jwtSecret, campaigns, internships, payments, users, companies, subscriptions,
                 applications, req, resp, successes>>

\* the server is deployed with JWT_SECRET set (b) or not set
Configure(b) ==
  /\ jwtSecret' = b
  /\ jwtSecret' # jwtSecret
  /\ UNCHANGED <<now, cookie, campaigns, internships, payments, users, companies, subscriptions,
                 applications, req, resp, successes>>

NextGuard ==
  \/ \E s \in {"s2"}, tok \in TokenParams : Quiet /\ SetCookie(s, tok)
  \/ \E b \in BOOLEAN : Quiet /\ Configure(b)
  \/ \E r \in Reqs, s \in {"s2"} :
       Quiet /\ FirstFree(r) /\ UpdateLetter_Begin(r, s, InitRow.id, OtherLetter)
  \/ \E r \in Reqs : UpdateLetter_Find(r)
  \/ \E r \in Reqs : UpdateLetter_Write(r)
  \/ \E r \in Reqs, c \in {"s2", "u1"} :
       Quiet /\ FirstFree(r) /\ UpdateStatus_Begin(r, c, InitRow.id, "SHORTLISTED")
  \/ \E r \in Reqs : UpdateStatus_Find(r)
  \/ \E r \in Reqs : UpdateStatus_Write(r)

SpecGuard == InitWith(SubBasic) /\ [][NextGuard]_vars

\* the role the guard of an operation expects
GuardRole(op) == IF op \in {"status", "edit", "launch"} THEN "COMPANY" ELSE "STUDENT"

\* tok verifies, is unexpired and carries the role
ValidFor(tok, role) == tok.kind = "jwt" /\ tok.role = role

\* the rows of the store
Store == <<campaigns, internships, payments, users, companies, subscriptions, applications>>

\* in this step a guard answers a request or hands it to its handler
GuardStep ==
  \/ resp' # resp /\ req' = req
  \/ \E r \in Reqs : req[r].pc = "idle" /\ req'[r].pc # "idle"

\* the handler is invoked in this step: it returns at once or goes on to its
\* first store step
HandlerInvoked ==
  \/ resp' # resp /\ req' = req /\ resp'.at # "guard"
  \/ \E r \in Reqs : req[r].pc = "idle" /\ req'[r].pc # "idle"

\* the slot the request of this guard step has taken, 0 when it was answered at once
StepSlot ==
  IF \E r \in Reqs : req[r].pc = "idle" /\ req'[r].pc # "idle"
    THEN (CHOOSE r \in Reqs : req[r].pc = "idle" /\ req'[r].pc # "idle")
    ELSE 0

\* the request of this guard step
GuardedRequest ==
  IF StepSlot = 0 THEN resp' ELSE req'[StepSlot]

\* C19, as stated: a guard invokes its handler only for a token that verifies
\* against the secret, is unexpired and carries the role of the guard; an
\* absent, malformed or expired token is answered 401 and a role mismatch 403,
\* and in those cases the handler is not invoked and the store is untouched
C19_GuardAnswers ==
  [][GuardStep =>
       LET q == GuardedRequest
           role == GuardRole(q.op)
       IN /\ HandlerInvoked => (jwtSecret /\ ValidFor(q.token, role))
          /\ q.token.kind # "jwt" =>
               /\ ~HandlerInvoked /\ UNCHANGED Store
               /\ resp'.result = "Unauthenticated"
          /\ (q.token.kind = "jwt" /\ q.token.role # role) =>
               /\ ~HandlerInvoked /\ UNCHANGED Store
               /\ resp'.result = "RoleMismatch"]_vars

\* C19, amended: a guard invokes its handler only for a token that verifies
\* against the secret, is unexpired and carries the role of the guard; for
\* any other token the handler is not invoked and the store is untouched; an
\* absent token is answered 401, and when the secret is configured a
\* malformed or expired token is answered 401 and a role mismatch 403
C19_GuardAdmits ==
  [][GuardStep =>
       LET q == GuardedRequest
           role == GuardRole(q.op)
       IN /\ HandlerInvoked => (jwtSecret /\ ValidFor(q.token, role))
          /\ ~(jwtSecret /\ ValidFor(q.token, role)) =>
               (~HandlerInvoked /\ resp'.at = "guard" /\ UNCHANGED Store)
          /\ q.token.kind = "none" => resp'.result = "Unauthenticated"
          /\ (jwtSecret /\ q.token.kind \notin {"none", "jwt"}) =>
               resp'.result = "Unauthenticated"
          /\ (jwtSecret /\ q.token.kind = "jwt" /\ q.token.role # role) =>
               resp'.result = "RoleMismatch"]_vars

\* with the secret configured, an expired token was answered 401 after the
\* status update of the company user had passed its guard and succeeded
C19_Witness ==
  /\ jwtSecret
  /\ resp.at = "guard" /\ resp.result = "Unauthenticated" /\ resp.token.kind = "expired"
  /\ \E a \in applications : a.id = InitRow.id /\ a.status = "SHORTLISTED"

\* C20, as stated: without the signing secret every request through a guard
\* is answered ServerMisconfigured, whatever its token cookie holds, and the
\* handler is not invoked
C20_NoSecretMisconfigured ==
  [][(GuardStep /\ ~jwtSecret) =>
       /\ resp'.result = "ServerMisconfigured"
       /\ resp'.at = "guard"
       /\ ~HandlerInvoked]_vars

(***************************************************************************)
(* SpecPaid: the requests of student s1 through withPaidStudentAuth (list, *)
(* detail, apply) and withStudentAuth (the cover-letter edit) and of       *)
(* company user u1 through withCompanyAuth (the campaign edit), one at a   *)
(* time, while time passes, over stores where the subscription of s1 is    *)
(* active, about to expire, or canceled.                                   *)
(***************************************************************************)
InitPaid == \E subs \in {SubBasic, SubExpiring, SubCanceled} : InitWith(subs)

NextPaid ==
  \/ \E s \in {"s1"} : Quiet /\ StudentLogin(s)
  \/ \E s \in {"s1"}, tok \in {Jwt("s1", "STUDENT", FALSE), Jwt("s1", "STUDENT", TRUE)} : Quiet /\ SetCookie(s, tok)
  \/ Quiet /\ Tick
  \/ \E r \in Reqs, s \in {"s1"} :
       Quiet /\ FirstFree(r) /\ List_Begin(r, s, "none", 1)
  \/ \E r \in Reqs : List_Find(r)
  \/ \E r \in Reqs, s \in {"s1"}, i \in {"i1"} :
       Quiet /\ FirstFree(r) /\ Detail_Begin(r, s, i)
  \/ \E r \in Reqs : Detail_Similar(r)
  \/ \E r \in Reqs, s \in {"s1"}, i \in {"i1"} :
       Quiet /\ FirstFree(r) /\ Apply_Begin(r, s, i, GoodLetter)
  \/ \E r \in Reqs : Apply_Existing(r)
  \/ \E r \in Reqs : Apply_User(r)
  \/ \E r \in Reqs : Apply_Count(r)
  \/ \E r \in Reqs : Apply_Create(r)
  \/ \E r \in Reqs, s \in {"s1"} :
       Quiet /\ FirstFree(r) /\ UpdateLetter_Begin(r, s, RowId("i1", s, 1), OtherLetter)
  \/ \E r \in Reqs : UpdateLetter_Find(r)
  \/ \E r \in Reqs : UpdateLetter_Write(r)
  \/ \E r \in Reqs, u \in {"u1"}, st \in {"ACTIVE", "PAUSED"} :
       Quiet /\ FirstFree(r) /\ EditCampaign_Begin(r, u, "k1", st)
  \/ \E r \in Reqs : EditCampaign_Find(r)
  \/ \E r \in Reqs : EditCampaign_Update(r)

SpecPaid == InitPaid /\ [][NextPaid]_vars

\* the operations behind withPaidStudentAuth
PaidOps == {"list", "detail", "apply"}

\* C21: a request to list, detail or apply whose token verifies, carries the
\* role STUDENT and has the subscription flag false is answered
\* SubscriptionRequired by the guard, whatever the store holds: the handler
\* is not invoked, no internship is returned and no row is written
C21_UnflaggedIsRefused ==
  [][GuardStep =>
       LET q == GuardedRequest
       IN (/\ q.op \in PaidOps
           /\ jwtSecret /\ ValidFor(q.token, "STUDENT")
           /\ ~q.token.hasActiveSubscription) =>
            /\ ~HandlerInvoked
            /\ resp'.result = "SubscriptionRequired" /\ resp'.at = "guard"
            /\ resp'.returned = {}
            /\ UNCHANGED Store]_vars

\* an apply was refused for its flag while the store held an active
\* subscription of the student and an internship open for applications
C21_Witness ==
  /\ resp.op = "apply" /\ resp.result = "SubscriptionRequired"
  /\ ~resp.token.hasActiveSubscription
  /\ ActiveSubscriptions(resp.userId, now) # {}
  /\ InternshipError(resp.iid) = "ok"
  /\ RowsOf(resp.iid, resp.userId) = {}

\* what a guard for role decides from the token and the secret alone
Decision(tok, secret, role, paid) ==
  IF tok.kind = "none" THEN "Unauthenticated"
  ELSE IF ~secret THEN "ServerMisconfigured"
  ELSE IF tok.kind # "jwt" THEN "Unauthenticated"
  ELSE IF tok.role # role THEN "RoleMismatch"
  ELSE IF paid /\ ~tok.hasActiveSubscription THEN "SubscriptionRequired"
  ELSE "ok"

\* C22: the decision of a guard is a function of the token and the secret,
\* never of the store; a student whose token carries the subscription flag
\* passes the paid guard although the store holds no active subscription
C22_DecisionFromTokenOnly ==
  [][GuardStep =>
       LET q == GuardedRequest
           d == Decision(q.token, jwtSecret, GuardRole(q.op), q.op \in PaidOps)
       IN /\ HandlerInvoked <=> d = "ok"
          /\ d # "ok" => (resp'.at = "guard" /\ resp'.result = d)
          /\ (/\ q.op \in PaidOps /\ jwtSecret /\ ValidFor(q.token, "STUDENT")
              /\ q.token.hasActiveSubscription
              /\ LoginSubscriptions(q.token.userId, now) = {}) => HandlerInvoked]_vars

\* a list was served to a token with the flag after the subscription of
\* the student had run out
C22_Witness ==
  /\ resp.op = "list" /\ resp.result = "Success" /\ resp.returned # {}
  /\ resp.token = Jwt("s1", "STUDENT", TRUE)
  /\ SubExpiring \subseteq subscriptions
  /\ ActiveSubscriptions("s1", now) = {} /\ LoginSubscriptions("s1", now) = {}

(***************************************************************************)
(* SpecErr: apply, status update, cover-letter edit, campaign launch and   *)
(* campaign edit, one request at a time, with tokens that pass and tokens  *)
(* that fail the guards, and with inputs that fail each check.             *)
(***************************************************************************)
NextErr ==
  \/ \E s \in {"s1"}, tok \in {NoToken, Jwt("s1", "STUDENT", TRUE), Jwt("u1", "COMPANY", FALSE)} : Quiet /\ SetCookie(s, tok)
  \/ \E r \in Reqs, s \in {"s1"}, i \in {"i1", "i9"}, l \in {ShortLetter, GoodLetter} :
       Quiet /\ FirstFree(r) /\ Apply_Begin(r, s, i, l)
  \/ \E r \in Reqs : Apply_Existing(r)
  \/ \E r \in Reqs : Apply_User(r)
  \/ \E r \in Reqs : Apply_Count(r)
  \/ \E r \in Reqs : Apply_Create(r)
  \/ \E r \in Reqs, c \in {"u1", "s1"}, id \in {RowId("i1", "s1", 1), RowId("i9", "s1", 1)}, t \in {"SHORTLISTED", "HIRED"} :
       Quiet /\ FirstFree(r) /\ UpdateStatus_Begin(r, c, id, t)
  \/ \E r \in Reqs : UpdateStatus_Find(r)
  \/ \E r \in Reqs : UpdateStatus_Write(r)
  \/ \E r \in Reqs, s \in {"s1"}, id \in {RowId("i1", "s1", 1), RowId("i9", "s1", 1)}, l \in {ShortLetter, OtherLetter} :
       Quiet /\ FirstFree(r) /\ UpdateLetter_Begin(r, s, id, l)
  \/ \E r \in Reqs : UpdateLetter_Find(r)
  \/ \E r \in Reqs : UpdateLetter_Write(r)
  \/ \E r \in Reqs, c \in {"u1", "s1"}, b \in {Body(FALSE, "text", "t1"), Body(TRUE, "text", "t1")} :
       Quiet /\ FirstFree(r) /\ Launch_Begin(r, c, b)
  \/ \E r \in Reqs : Launch_Transaction(r)
  \/ \E r \in Reqs, c \in {"u1", "s1"}, k \in {"k1", "k9"} :
       Quiet /\ FirstFree(r) /\ EditCampaign_Begin(r, c, k, "PAUSED")
  \/ \E r \in Reqs : EditCampaign_Find(r)
  \/ \E r \in Reqs : EditCampaign_Update(r)

SpecErr == InitWith(SubBasic) /\ [][NextErr]_vars

\* the HTTP status of a result
HttpStatus(res) ==
  CASE res = "Success" -> 200
    [] res \in {"ValidationError", "Closed", "CampaignInactive", "DeadlinePassed",
                "DuplicateApplication", "InvalidTransition"} -> 400
    [] res = "Unauthenticated" -> 401
    [] res \in {"RoleMismatch", "SubscriptionRequired", "QuotaExceeded", "NotPending"} -> 403
    [] res = "NotFound" -> 404
    [] OTHER -> 500

\* the five operations that write
WritingOps == {"apply", "status", "letter", "launch", "edit"}

\* C23: an apply, status update, cover-letter edit, launch or campaign edit
\* that is answered 400, 401, 403 or 404 has left the store as it was: a
\* step of a request changes the store only when it returns, and then not
\* with one of these statuses; a step that returns one of them changes
\* nothing
C23_ErrorsWriteNothing ==
  [][/\ Store' # Store =>
          /\ \E r \in Reqs : req[r].pc # "idle" /\ req'[r].pc = "idle"
          /\ HttpStatus(resp'.result) \notin {400, 401, 403, 404}
     /\ (/\ \/ resp' # resp
             \/ \E r \in Reqs : req[r].pc # "idle" /\ req'[r].pc = "idle"
          /\ resp'.op \in WritingOps
          /\ HttpStatus(resp'.result) \in {400, 401, 403, 404}) => UNCHANGED Store]_vars

\* a cover-letter edit was answered 403 for a row that is no longer PENDING
\* and that still holds the letter of the application
C23_Witness ==
  /\ resp.op = "letter" /\ resp.result = "NotPending"
  /\ \E a \in applications :
       /\ a.id = resp.appId /\ a.status = "SHORTLISTED"
       /\ a.coverLetter = Trim(GoodLetter) /\ a.coverLetter # Trim(resp.letter)
  /\ Launched # {}

(***************************************************************************)
(* POST /student/signup and POST /company/signup.  Both are public; the    *)
(* bcrypt hash between the reads and the write touches no state.  The      *)
(* companyToken cookie a company signup sets is the token CompanyToken     *)
(* gives for the new user.                                                 *)
(***************************************************************************)
\* User.id and Company.id of the rows the signups insert, in insertion order
NewUserIds == <<"n1", "n2", "n3">>
NewCompanyIds == <<"c3", "c4", "c5">>

\* the email of a signup body: two free addresses, a taken one, and a
\* string the email regex rejects
EmailParams == {"a@m", "b@m", "s1@m", "bad"}

\* the companyName of a company signup body; "none" for a missing name
NameParams == {"Nova", "NOVA", "Acme", "none"}

\* String.toLowerCase over the names, as `mode: 'insensitive'` compares
Lower(n) ==
  CASE n \in {"Nova", "NOVA"} -> "nova"
    [] n = "Acme" -> "acme"
    [] n = "Globex" -> "globex"
    [] OTHER -> n

\* the required fields and the email regex of the student body
SignupError(e) ==
  IF e = "none" \/ e = "bad" THEN "ValidationError" ELSE "ok"

\* the required fields and the email regex of the company body
CompanySignupError(e, n) ==
  IF e = "none" \/ n = "none" \/ e = "bad" THEN "ValidationError" ELSE "ok"

\* prisma.user.findUnique where email
UsersByEmail(e) == {u \in users : u.email = e}

\* prisma.company.findFirst where name equals companyName, insensitive
CompaniesByName(n) == {c \in companies : Lower(c.name) = Lower(n)}

\* faulty variant: the index is missing
EmailUniqueViolationOff(e) == FALSE

\* User_email_key rejects the insert (P2002)
EmailUniqueViolation(e) == UsersByEmail(e) # {}

\* the signups that have passed their checks and not yet inserted
SignupsInFlight ==
  {r \in Reqs : req[r].pc \in {"su_create", "cs_company", "cs_create"}}

\* the rows signups have inserted
SignedUp == users \ InitUsers
Founded == companies \ InitCompanies

\* student signup: the validations, then prisma.user.findUnique on the email
Signup_Begin(r, s, e) ==
  /\ req[r].pc = "idle"
  /\ Cardinality(SignedUp) + Cardinality(SignupsInFlight) < Len(NewUserIds)
  /\ LET q == [Idle EXCEPT !.op = "signup", !.client = s, !.email = e]
     IN IF SignupError(e) # "ok"
          THEN resp' = Response(q, SignupError(e), "validate") /\ UNCHANGED req
        ELSE IF UsersByEmail(e) # {}
          THEN resp' = Response(q, "Conflict", "su_find") /\ UNCHANGED req
        ELSE req' = [req EXCEPT ![r] = [q EXCEPT !.pc = "su_create"]] /\ UNCHANGED resp
  /\ UNCHANGED <<now, jwtSecret, cookie, campaigns, internships, payments, users, companies,
                 subscriptions, applications, successes>>

\* prisma.user.create; P2002 reaches the catch block and is answered 409;
\* then the JWT_SECRET check, the token without the subscription flag and
\* the studentToken cookie
Signup_Create(r) ==
  /\ req[r].pc = "su_create"
  /\ LET e == req[r].email
         id == NewUserIds[Cardinality(SignedUp) + 1]
     IN IF EmailUniqueViolation(e)
          THEN Return(r, "Conflict") /\ UNCHANGED <<users, cookie>>
        ELSE /\ users' = users \cup {UserRow(id, e, "STUDENT", "none")}
             /\ IF ~jwtSecret
                  THEN Return(r, "ServerMisconfigured") /\ UNCHANGED cookie
                  ELSE /\ cookie' = [cookie EXCEPT ![req[r].client] =
                                        Jwt(id, "STUDENT", FALSE)]
                       /\ resp' = [Response(req[r], "Success", "su_create")
                                     EXCEPT !.userId = id]
                       /\ req' = [req EXCEPT ![r] = Idle]
  /\ UNCHANGED <<now, jwtSecret, campaigns, internships, payments, companies,
                 subscriptions, applications, successes>>

\* company signup: the validations, then prisma.user.findUnique on the email
CompanySignup_Begin(r, e, n) ==
  /\ req[r].pc = "idle"
  /\ Cardinality(SignedUp) + Cardinality(SignupsInFlight) < Len(NewUserIds)
  /\ LET q == [Idle EXCEPT !.op = "companySignup", !.email = e, !.name = n]
     IN IF CompanySignupError(e, n) # "ok"
          THEN resp' = Response(q, CompanySignupError(e, n), "validate") /\ UNCHANGED req
        ELSE IF UsersByEmail(e) # {}
          THEN resp' = Response(q, "Conflict", "cs_user") /\ UNCHANGED req
        ELSE req' = [req EXCEPT ![r] = [q EXCEPT !.pc = "cs_company"]] /\ UNCHANGED resp
  /\ UNCHANGED <<now, jwtSecret, cookie, campaigns, internships, payments, users, companies,
                 subscriptions, applications, successes>>

\* prisma.company.findFirst on the name
CompanySignup_FindCompany(r) ==
  /\ req[r].pc = "cs_company"
  /\ IF CompaniesByName(req[r].name) # {}
       THEN Return(r, "Conflict")
       ELSE Goto(r, "cs_create")
  /\ UNCHANGED <<now, jwtSecret, cookie, campaigns, internships, payments, users, companies,
                 subscriptions, applications, successes>>

\* prisma.$transaction: tx.company.create, then tx.user.create; P2002 rolls
\* back and is answered 409; then the JWT_SECRET check and the token
CompanySignup_Transaction(r) ==
  /\ req[r].pc = "cs_create"
  /\ LET e == req[r].email
         c == NewCompanyIds[Cardinality(Founded) + 1]
         id == NewUserIds[Cardinality(SignedUp) + 1]
         ok == ~EmailUniqueViolation(e)
     IN /\ companies' = Committed(companies,
                                  companies \cup {CompanyRow(c, req[r].name)}, ok)
        /\ users' = IF ok THEN users \cup {UserRow(id, e, "COMPANY", c)} ELSE users
        /\ IF ~ok THEN Return(r, "Conflict")
           ELSE IF ~jwtSecret THEN Return(r, "ServerMisconfigured")
           ELSE /\ resp' = [Response(req[r], "Success", "cs_create") EXCEPT !.userId = id]
                /\ req' = [req EXCEPT ![r] = Idle]
  /\ UNCHANGED <<now, jwtSecret, cookie, campaigns, internships, payments,
                 subscriptions, applications, successes>>

(***************************************************************************)
(* SpecSignup: concurrent student and company signups.                     *)
(***************************************************************************)
NextSignup ==
  \/ \E r \in Reqs, s \in {"s1"}, e \in EmailParams :
       FirstFree(r) /\ Signup_Begin(r, s, e)
  \/ \E r \in Reqs : Signup_Create(r)
  \/ \E r \in Reqs, e \in EmailParams, n \in NameParams :
       FirstFree(r) /\ CompanySignup_Begin(r, e, n)
  \/ \E r \in Reqs : CompanySignup_FindCompany(r)
  \/ \E r \in Reqs : CompanySignup_Transaction(r)

SpecSignup == InitWith(SubBasic) /\ [][NextSignup]_vars

\* this step is the insert step of a signup
SignupInsert(r) ==
  req[r].pc \in {"su_create", "cs_create"} /\ req'[r].pc = "idle"

\* C24: no two User rows share an email; of two signups that both passed the
\* existence check for an email, the one whose insert comes second inserts
\* nothing and is answered Conflict; no signup is answered InternalError
C24_EmailRaceIsConflict ==
  /\ [](\A e \in EmailParams : Cardinality(UsersByEmail(e)) <= 1)
  /\ [][\A r \in Reqs :
          SignupInsert(r) =>
            /\ resp'.result # "InternalError"
            /\ UsersByEmail(req[r].email) # {} =>
                 /\ resp'.result = "Conflict"
                 /\ users' = users /\ companies' = companies
            /\ UsersByEmail(req[r].email) = {} =>
                 /\ resp'.result = "Success"
                 /\ Cardinality({u \in users' : u.email = req[r].email}) = 1]_vars

\* a signup that had passed the existence check was answered Conflict by its
\* insert, and the email has the one row another signup inserted
C24_Witness ==
  /\ resp.result = "Conflict" /\ resp.at \in {"su_create", "cs_create"}
  /\ Cardinality(UsersByEmail(resp.email)) = 1
  /\ UsersByEmail(resp.email) \subseteq SignedUp

\* C30, as stated: no two Company rows have the same name, compared
\* case-insensitively, whatever the interleaving of the company signups
C30_UniqueCompanyNames ==
  \A c, d \in companies : Lower(c.name) = Lower(d.name) => c = d

\* C25, as stated: the quota check of an apply is skipped exactly when the
\* cap of the plan is null; with any other cap, 0 included, the count of the
\* month is read and the request is answered QuotaExceeded when it has
\* reached the cap
C25_QuotaSkippedOnlyForNull ==
  [][\A r \in Reqs :
       (/\ req[r].pc = "ap_user" /\ req'[r].pc # "ap_user"
        /\ ActiveSubscriptions(req[r].userId, now) # {}) =>
         \A sb \in NewestOf(ActiveSubscriptions(req[r].userId, now)) :
           /\ req'[r].pc = "ap_create" <=> Plans[sb.planId] = NoCap
           /\ (/\ Plans[sb.planId] # NoCap
               /\ ApplicationsThisMonth(req[r].userId, now) >= Plans[sb.planId]) =>
                req'[r].pc = "ap_count"]_vars

(***************************************************************************)
(* SpecPlans: apply requests of student s1, one at a time, over stores     *)
(* where s1 holds two active subscriptions: plan basic (cap 1) and plan    *)
(* pro (no cap), created at different instants or at the same one.         *)
(***************************************************************************)
\* the subscription to plan pro of student s1, created at c
SubProAt(c) == {Sub("s1", "pro", "ACTIVE", MaxTime + 1, c)}

\* the subscription to plan basic of student s1, created at c
SubBasicAt(c) == {Sub("s1", "basic", "ACTIVE", MaxTime + 1, c)}

InitPlans ==
  \E subs \in {SubBasicAt(0) \cup SubProAt(1), SubBasicAt(1) \cup SubProAt(0),
                SubBasicAt(0) \cup SubProAt(0)} : InitWith(subs)

NextPlans ==
  \/ \E s \in {"s1"} : Quiet /\ StudentLogin(s)
  \/ \E r \in Reqs, s \in {"s1"}, i \in InternshipIds :
       Quiet /\ FirstFree(r) /\ Apply_Begin(r, s, i, GoodLetter)
  \/ \E r \in Reqs : Apply_Existing(r)
  \/ \E r \in Reqs : Apply_User(r)
  \/ \E r \in Reqs : Apply_Count(r)
  \/ \E r \in Reqs : Apply_Create(r)
  \/ Quiet /\ Tick

SpecPlans == InitPlans /\ [][NextPlans]_vars

\* C26, as stated: an apply of a student with several active subscriptions
\* uses the cap of exactly the subscription with the greatest createdAt, so
\* the outcome is determined by the store: whichever active row has the
\* greatest createdAt, the count is read against its cap, or skipped when
\* it has none
C26_NewestCapDecides ==
  [][\A r \in Reqs :
       (req[r].pc = "ap_user" /\ req'[r].pc # "ap_user") =>
         LET subs == ActiveSubscriptions(req[r].userId, now)
         IN \A sb \in subs :
              (\A o \in subs : o.createdAt <= sb.createdAt) =>
                IF Plans[sb.planId] = NoCap
                  THEN req'[r].pc = "ap_create"
                  ELSE req'[r].pc = "ap_count" /\ req'[r].cap = Plans[sb.planId]]_vars

\* a subscription of u is ACTIVE and its endsAt is strictly after now
StrictlyActive(u) ==
  \E sb \in subscriptions : sb.userId = u /\ sb.status = "ACTIVE" /\ sb.endsAt > now

\* C27, as stated: login and apply use the same predicate for an active
\* subscription, status ACTIVE and endsAt strictly after now: a login sets
\* the flag of the token exactly when it holds, and an apply is answered
\* SubscriptionRequired by its subscription lookup exactly when it does not,
\* also at the instant now = endsAt
C27_SameActivePredicate ==
  [][/\ \A s \in Students :
          cookie'[s] # cookie[s] =>
            (cookie'[s].hasActiveSubscription <=> StrictlyActive(s))
     /\ \A r \in Reqs :
          (req[r].pc = "ap_user" /\ req'[r].pc # "ap_user") =>
            ((req'[r].pc = "idle" /\ resp'.result = "SubscriptionRequired")
               <=> ~StrictlyActive(req[r].userId))]_vars

\* C28, as stated: every stored cover letter has between 50 and 2000
\* characters and equals its trimmed form, after applies and after edits
C28_StoredLetterBounds ==
  \A a \in applications :
    /\ Length(a.coverLetter) >= MinCoverLetter
    /\ Length(a.coverLetter) <= MaxCoverLetter
    /\ Trim(a.coverLetter) = a.coverLetter

(***************************************************************************)
(* GET /student/applications (getMyApplications behind withStudentAuth)    *)
(* and GET /company/campaigns/{campaignId}/applications                    *)
(* (getCampaignApplications behind withCompanyAuth).  With the default     *)
(* page and limit the page holds every matching row.                       *)
(***************************************************************************)
\* the number of rows of status st, `statusCounts[st] || 0`
StatusCount(rows, st) == Cardinality({a \in rows : a.status = st})

\* the counts of prisma.application.groupBy by status over rows, with the
\* total t counted before
Summarize(t, rows) ==
  Summary(t, StatusCount(rows, "PENDING"), StatusCount(rows, "SHORTLISTED"),
          StatusCount(rows, "ACCEPTED"), StatusCount(rows, "REJECTED"))

\* whereClause of getMyApplications: the status filter applies when it names
\* a status of the enum
MyWhere(a, u, st) ==
  /\ a.userId = u
  /\ st \in ApplicationStatuses => a.status = st

\* where clause of the groupBy of getMyApplications
MyGroupWhere(a, u) == a.userId = u

\* the guard, the query parameters, then prisma.application.count
MyApplications_Begin(r, s, st) ==
  /\ req[r].pc = "idle"
  /\ LET tok == cookie[s]
         g == StudentGuard(tok)
         q == [Idle EXCEPT !.token = tok, !.op = "myApplications", !.userId = tok.userId,
                           !.filter = Filter(st, "none")]
         total == Cardinality({a \in applications : MyWhere(a, tok.userId, st)})
     IN IF g # "ok"
          THEN resp' = Response(q, g, "guard") /\ UNCHANGED req
          ELSE /\ req' = [req EXCEPT ![r] =
                            [q EXCEPT !.pc = "ma_find", !.summary.total = total]]
               /\ UNCHANGED resp
  /\ UNCHANGED <<now, jwtSecret, cookie, campaigns, internships, payments, users, companies,
                 subscriptions, applications, successes>>

\* prisma.application.findMany
MyApplications_Find(r) ==
  /\ req[r].pc = "ma_find"
  /\ LET rows == {a \in applications : MyWhere(a, req[r].userId, req[r].filter.status)}
     IN /\ Cardinality(rows) <= DefaultLimit
        /\ req' = [req EXCEPT ![r] = [req[r] EXCEPT !.pc = "ma_group", !.found = rows]]
        /\ UNCHANGED resp
  /\ UNCHANGED <<now, jwtSecret, cookie, campaigns, internships, payments, users, companies,
                 subscriptions, applications, successes>>

\* prisma.application.groupBy by status, and the response
MyApplications_Group(r) ==
  /\ req[r].pc = "ma_group"
  /\ LET rows == {a \in applications : MyGroupWhere(a, req[r].userId)}
     IN resp' = [Response(req[r], "Success", "ma_group") EXCEPT
                   !.summary = Summarize(req[r].summary.total, rows)]
  /\ req' = [req EXCEPT ![r] = Idle]
  /\ UNCHANGED <<now, jwtSecret, cookie, campaigns, internships, payments, users, companies,
                 subscriptions, applications, successes>>

\* where clause of the groupBy of getCampaignApplications
CampaignGroupWhere(a, k) ==
  a.internshipId \in DOMAIN internships /\ internships[a.internshipId].campaignId = k

\* whereClause of getCampaignApplications: the status and internshipId
\* filters apply when they are given
CampaignWhere(a, k, f) ==
  /\ CampaignGroupWhere(a, k)
  /\ f.status # "none" => a.status = f.status
  /\ f.internshipId # "none" => a.internshipId = f.internshipId

\* the guard, the query parameters, then prisma.user.findUnique with its company
CampaignApplications_Begin(r, u, k, f) ==
  /\ req[r].pc = "idle"
  /\ LET tok == CompanyToken(u)
         g == CompanyGuard(tok)
         q == [Idle EXCEPT !.token = tok, !.op = "campaignApplications",
                           !.userId = tok.userId, !.iid = k, !.filter = f]
     IN IF g # "ok"
          THEN resp' = Response(q, g, "guard") /\ UNCHANGED req
        ELSE IF tok.userId \notin DOMAIN CompanyOf
          THEN resp' = Response(q, "NotFound", "ca_user") /\ UNCHANGED req
        ELSE req' = [req EXCEPT ![r] = [q EXCEPT !.pc = "ca_campaign"]] /\ UNCHANGED resp
  /\ UNCHANGED <<now, jwtSecret, cookie, campaigns, internships, payments, users, companies,
                 subscriptions, applications, successes>>

\* prisma.campaign.findFirst where id and companyId
CampaignApplications_Campaign(r) ==
  /\ req[r].pc = "ca_campaign"
  /\ IF req[r].iid \in DOMAIN campaigns
          /\ campaigns[req[r].iid].companyId = CompanyOf[req[r].userId]
       THEN Goto(r, "ca_count")
       ELSE Return(r, "NotFound")
  /\ UNCHANGED <<now, jwtSecret, cookie, campaigns, internships, payments, users, companies,
                 subscriptions, applications, successes>>

\* prisma.application.count; a status outside the enum makes the query throw
\* into the catch block
CampaignApplications_Count(r) ==
  /\ req[r].pc = "ca_count"
  /\ LET f == req[r].filter
         total == Cardinality({a \in applications : CampaignWhere(a, req[r].iid, f)})
     IN IF f.status \notin ApplicationStatuses \cup {"none"}
          THEN Return(r, "InternalError")
          ELSE /\ req' = [req EXCEPT ![r] =
                            [req[r] EXCEPT !.pc = "ca_find", !.summary.total = total]]
               /\ UNCHANGED resp
  /\ UNCHANGED <<now, jwtSecret, cookie, campaigns, internships, payments, users, companies,
                 subscriptions, applications, successes>>

\* prisma.application.findMany
CampaignApplications_Find(r) ==
  /\ req[r].pc = "ca_find"
  /\ LET rows == {a \in applications : CampaignWhere(a, req[r].iid, req[r].filter)}
     IN /\ Cardinality(rows) <= DefaultLimit
        /\ req' = [req EXCEPT ![r] = [req[r] EXCEPT !.pc = "ca_group", !.found = rows]]
        /\ UNCHANGED resp
  /\ UNCHANGED <<now, jwtSecret, cookie, campaigns, internships, payments, users, companies,
                 subscriptions, applications, successes>>

\* prisma.application.groupBy by status, and the response
CampaignApplications_Group(r) ==
  /\ req[r].pc = "ca_group"
  /\ LET rows == {a \in applications : CampaignGroupWhere(a, req[r].iid)}
     IN resp' = [Response(req[r], "Success", "ca_group") EXCEPT
                   !.summary = Summarize(req[r].summary.total, rows)]
  /\ req' = [req EXCEPT ![r] = Idle]
  /\ UNCHANGED <<now, jwtSecret, cookie, campaigns, internships, payments, users, companies,
                 subscriptions, applications, successes>>

(***************************************************************************)
(* SpecLists: the application lists of the students and of the company     *)
(* users, one request at a time, while s1 applies and company user u1      *)
(* updates the status of the application of s2.                            *)
(***************************************************************************)
NextLists ==
  \/ \E s \in {"s1", "s2"} : Quiet /\ StudentLogin(s)
  \/ \E r \in Reqs, s \in {"s1"}, i \in {"i2"} :
       Quiet /\ FirstFree(r) /\ Apply_Begin(r, s, i, GoodLetter)
  \/ \E r \in Reqs : Apply_Existing(r)
  \/ \E r \in Reqs : Apply_User(r)
  \/ \E r \in Reqs : Apply_Count(r)
  \/ \E r \in Reqs : Apply_Create(r)
  \/ \E r \in Reqs, u \in {"u1", "u2"}, t \in {"SHORTLISTED", "ACCEPTED"} :
       Quiet /\ FirstFree(r) /\ UpdateStatus_Begin(r, u, InitRow.id, t)
  \/ \E r \in Reqs : UpdateStatus_Find(r)
  \/ \E r \in Reqs : UpdateStatus_Write(r)
  \/ \E r \in Reqs, s \in {"s1", "s2"}, st \in {"none", "PENDING", "SHORTLISTED"} :
       Quiet /\ FirstFree(r) /\ MyApplications_Begin(r, s, st)
  \/ \E r \in Reqs : MyApplications_Find(r)
  \/ \E r \in Reqs : MyApplications_Group(r)
  \/ \E r \in Reqs, u \in {"u1", "u2"}, k \in {"k2", "k9"}, f \in {NoFilter, Filter("PENDING", "none"), Filter("none", "i2"), Filter("HIRED", "none")} :
       Quiet /\ FirstFree(r) /\ CampaignApplications_Begin(r, u, k, f)
  \/ \E r \in Reqs : CampaignApplications_Campaign(r)
  \/ \E r \in Reqs : CampaignApplications_Count(r)
  \/ \E r \in Reqs : CampaignApplications_Find(r)
  \/ \E r \in Reqs : CampaignApplications_Group(r)

SpecLists == InitWith(SubBasic) /\ [][NextLists]_vars

\* C29, as stated: in the response of the student's application list and of
\* the company's application list of a campaign, summary.total is the sum
\* of the pending, shortlisted, accepted and rejected counts, for every
\* store and every combination of filters
C29_TotalIsSumOfCounts ==
  (resp.op \in {"myApplications", "campaignApplications"} /\ resp.result = "Success") =>
    resp.summary.total = resp.summary.pending + resp.summary.shortlisted
                           + resp.summary.accepted + resp.summary.rejected

====
